---- MODULE Spec2Model ----
(***************************************************************************)
(* Grounded planning pipeline of lhx_text2sql: Planner.generate_plan,      *)
(* PlanValidator.validate, PlanRepair.repair, SqlCompiler.compile and      *)
(* Text2SQLEngine.run_query.                                               *)
(*                                                                         *)
(* Representation.  A text is a sequence of word tokens (the maximal runs  *)
(* of [A-Za-z0-9_] of the Python string, in order); an identifier is a     *)
(* one-token string.  A "table.field" string is the record                 *)
(* [table, field]; a string without a dot has table = "".  Dates are       *)
(* strings ordered by DateOrd.  An optional value (sort) is a sequence of  *)
(* length 0 or 1; limit 0 is None.                                         *)
(***************************************************************************)
EXTENDS Integers, Sequences, FiniteSets, TLC

VARIABLES
  settings,           \* Settings: llm_mode, llm_plan_retry_on_timeout, fixed_metric_id
  kb,                 \* the four catalogues: MetricKB.data, SchemaKB.data, JoinGraphKB.data, TemplateKB.data
  request,            \* run_query arguments: question, time_range
  pc,                 \* position inside run_query / generate_plan
  stage,              \* run_query's stage label
  evidence,           \* generate_plan's local `evidence`
  plan,               \* generate_plan's local `plan` (a map), then the frozen PlanDSL
  plan_initial,       \* generate_plan's local `plan_initial`
  initial_shared,     \* TRUE while `plan` and `plan_initial` are the same dict object
  validation_errors,  \* generate_plan's local `validation_errors`
  plan_result,        \* the PlanResult generate_plan returned
  sql,                \* what SqlCompiler.compile returned or raised
  outcome,            \* what run_query returned or raised
  trace,              \* calls made so far by this request
  store,              \* a SimpleInMemoryVectorStore: _docs and _tokens, in insertion order
  hits,               \* the last SimpleInMemoryVectorStore.query call and its result
  other               \* the locals of a second run_query call while this one is running

vars == << settings, kb, request, pc, stage, evidence, plan, plan_initial,
           initial_shared, validation_errors, plan_result, sql, outcome, trace,
           store, hits, other >>

----------------------------------------------------------------------------
(* Generic helpers *)

Range(s) == { s[i] : i \in 1..Len(s) }

Min2(a, b) == IF a < b THEN a ELSE b

Max2(a, b) == IF a > b THEN a ELSE b

\* Python s[:k]
Take(s, k) == SubSeq(s, 1, Min2(Len(s), Max2(k, 0)))

\* [f(x) for x in s if p(x)] for a test given as the set of kept elements
RECURSIVE FilterSeq(_, _)
FilterSeq(s, keep) ==
  IF s = << >> THEN << >>
  ELSE (IF Head(s) \in keep THEN << Head(s) >> ELSE << >>) \o FilterSeq(Tail(s), keep)

\* index of the first element of s that lies in S, 0 when there is none: next(... for x in s)
RECURSIVE FirstIdxFrom(_, _, _)
FirstIdxFrom(s, S, i) ==
  IF i > Len(s) THEN 0
  ELSE IF s[i] \in S THEN i
  ELSE FirstIdxFrom(s, S, i + 1)

FirstIdx(s, S) == FirstIdxFrom(s, S, 1)

\* concatenation of a sequence of sequences
RECURSIVE Flatten(_)
Flatten(ss) == IF ss = << >> THEN << >> ELSE Head(ss) \o Flatten(Tail(ss))

----------------------------------------------------------------------------
(* models.py: entity shapes *)

Key(table, field) == [table |-> table, field |-> field]

\* f"{s.table}.{s.field}"
KeyOf(item) == Key(item.table, item.field)

\* "." in field   (MetricDef.required_fields entries, SortSpec.by)
HasDot(k) == k.table # ""

MetricDef(id, name, fields, grain) ==
  [metric_id |-> id, name |-> name, required_fields |-> fields,
   default_time_grain |-> grain]

SchemaEntity(table, field, aliases, data_type) ==
  [table |-> table, field |-> field, aliases |-> aliases, data_type |-> data_type]

JoinEdge(lt, lf, rt, rf, jt) ==
  [left_table |-> lt, left_field |-> lf, right_table |-> rt, right_field |-> rf,
   join_type |-> jt]

JoinPath(id, tables, edges) ==
  [join_path_id |-> id, tables |-> tables, edges |-> edges]

TemplateRule(id, intent, aggs, funcs, clauses) ==
  [template_id |-> id, intent |-> intent, allowed_aggs |-> aggs,
   allowed_funcs |-> funcs, required_clauses |-> clauses]

EvidenceBundle(m, s, j, t) ==
  [metric_candidates |-> m, schema_candidates |-> s, join_paths |-> j,
   template_rules |-> t]

ValidationError(code, message, field_path, suggestions) ==
  [code |-> code, message |-> message, field_path |-> field_path,
   suggestions |-> suggestions]

Intents == {"trend", "aggregate", "rank", "compare", "detail"}

Grains == {"15m", "hour", "day", "week", "month"}

FilterOps == {"=", "!=", ">", ">=", "<", "<=", "in", "like", "between"}

----------------------------------------------------------------------------
(* Strings: case folding, ordering, dates *)

\* str.lower() on the strings of the model
Lower(s) ==
  CASE s = "SELECT" -> "select"
    [] s = "FROM" -> "from"
    [] s = "TS" -> "ts"
    [] s = "Timeout" -> "timeout"
    [] OTHER -> s

\* every string that sorted() may have to order, in Python's string order
Lexicon ==
  << "NONE", "UNKNOWN", "bad_field", "capacity_kw", "feeder", "feeder_id",
     "feeder_transformer", "ghost_path", "load_kw", "load_rate", "outage_cnt",
     "outage_count", "select", "transformer", "ts", "valid_path" >>

StrRank(s) == IF \E i \in 1..Len(Lexicon) : Lexicon[i] = s
              THEN CHOOSE i \in 1..Len(Lexicon) : Lexicon[i] = s
              ELSE 0

\* a < b for two texts, token by token
RECURSIVE TextLess(_, _)
TextLess(a, b) ==
  IF b = << >> THEN FALSE
  ELSE IF a = << >> THEN TRUE
  ELSE IF Head(a) = Head(b) THEN TextLess(Tail(a), Tail(b))
  ELSE StrRank(Head(a)) < StrRank(Head(b))

\* sorted(S) for a set of texts
RECURSIVE SortedTexts(_)
SortedTexts(S) ==
  IF S = {} THEN << >>
  ELSE LET m == CHOOSE x \in S : \A y \in S \ {x} : TextLess(x, y)
       IN  << m >> \o SortedTexts(S \ {m})

KeyText(k) == << k.table, k.field >>

\* texts of f"{i.x}" for the elements of a sequence of identifiers
RECURSIVE IdTexts(_)
IdTexts(s) == IF s = << >> THEN << >> ELSE << << Head(s) >> >> \o IdTexts(Tail(s))

\* date.fromisoformat(s) succeeds
IsIsoDate(s) == s \in {"2024-01-01", "2024-01-31"}

\* the date's position in time, for start_date > end_date
DateOrd(s) == IF s = "2024-01-01" THEN 1 ELSE 31

----------------------------------------------------------------------------
(* schema.py: the Plan DSL JSON Schema and validate_plan *)

\* a plan value that is not a dict
NotAMap == [pytype |-> "str"]

IsDict(p) == "pytype" \notin DOMAIN p

RequiredKeys ==
  << "version", "intent", "metric_id", "dimensions", "time_range", "time_grain",
     "filters", "join_path_id", "output", "confidence", "clarifications" >>

MaxLimit == 10000

\* the violations Draft7Validator(schema).iter_errors(plan) reports: <<message, path>>
PlanSchemaViolations(p) ==
  LET missing == FilterSeq(RequiredKeys, Range(RequiredKeys) \ DOMAIN p)
      req == [i \in 1..Len(missing) |-> << << missing[i], "is a required property" >>, "$" >>]
      has(k) == k \in DOMAIN p
      enum(k, ok) == IF has(k) /\ ~ok THEN << << << p[k], "is not one of the enum" >>, k >> >>
                     ELSE << >>
  IN  req
      \o enum("version", has("version") /\ p.version = "1.0")
      \o enum("intent", has("intent") /\ p.intent \in Intents)
      \o enum("time_grain", has("time_grain") /\ p.time_grain \in Grains)
      \o (IF has("limit") /\ p.limit # 0 /\ (p.limit < 1 \/ p.limit > MaxLimit)
          THEN << << << "limit", "out of range" >>, "limit" >> >> ELSE << >>)
      \o (IF has("filters") /\ \E i \in 1..Len(p.filters) : p.filters[i].op \notin FilterOps
          THEN << << << "op", "is not one of the enum" >>, "filters" >> >> ELSE << >>)

validate_plan(p) ==
  LET v == PlanSchemaViolations(p)
  IN  [i \in 1..Len(v) |-> ValidationError("schema", v[i][1], v[i][2], << >>)]

----------------------------------------------------------------------------
(* planning/validator.py *)

TIME_FIELD_NAMES == {"ts", "timestamp", "event_time", "date", "dt"}

TIME_DATA_TYPES == {"datetime", "timestamp", "date"}

\* item.field.lower() in TIME_FIELD_NAMES or item.data_type.lower() in TIME_DATA_TYPES
IsTimeTyped(item) ==
  \/ Lower(item.field) \in TIME_FIELD_NAMES
  \/ Lower(item.data_type) \in TIME_DATA_TYPES

TimeTypedOf(items) == { x \in Range(items) : IsTimeTyped(x) }

\* table of the metric's dotted required fields
MetricTables(m) == { m.required_fields[i].table : i \in { j \in 1..Len(m.required_fields) :
                                                          HasDot(m.required_fields[j]) } }

\* the first candidate with the id, as a 0/1-element sequence
FindMetric(metric_id, ev) ==
  LET i == FirstIdx(ev.metric_candidates,
                    { m \in Range(ev.metric_candidates) : m.metric_id = metric_id })
  IN  IF i = 0 THEN << >> ELSE << ev.metric_candidates[i] >>

FindJoinPath(join_path_id, ev) ==
  LET i == FirstIdx(ev.join_paths,
                    { j \in Range(ev.join_paths) : j.join_path_id = join_path_id })
  IN  IF i = 0 THEN << >> ELSE << ev.join_paths[i] >>

_pick_time_table(ev, preferred_tables) ==
  LET sc == ev.schema_candidates
      i1 == FirstIdx(sc, { x \in TimeTypedOf(sc) : x.table \in preferred_tables })
      i2 == FirstIdx(sc, TimeTypedOf(sc))
  IN  IF preferred_tables # {} /\ i1 # 0 THEN sc[i1].table
      ELSE IF i2 # 0 THEN sc[i2].table
      ELSE ""

_collect_tables(p, ev) ==
  LET dimT == { p.dimensions[i].table : i \in 1..Len(p.dimensions) } \ {""}
      filT == { p.filters[i].table : i \in 1..Len(p.filters) } \ {""}
      md == FindMetric(p.metric_id, ev)
      metric_tables == IF md = << >> THEN {} ELSE MetricTables(md[1])
      time_table == _pick_time_table(ev, metric_tables)
  IN  dimT \cup filT \cup metric_tables \cup (IF time_table # "" THEN {time_table} ELSE {})

_suggest_join_paths(referenced_tables, ev) ==
  LET jp == ev.join_paths
      ok == FilterSeq(jp, { j \in Range(jp) : referenced_tables \subseteq Range(j.tables) })
  IN  [i \in 1..Len(ok) |-> << ok[i].join_path_id >>]

_check_join_reachability_Skipped(p, ev) == << >>

_check_join_reachability(p, ev) ==
  LET referenced_tables == _collect_tables(p, ev)
      jp == FindJoinPath(p.join_path_id, ev)
  IN  IF referenced_tables = {} THEN << >>
      ELSE IF p.join_path_id = "NONE"
      THEN IF Cardinality(referenced_tables) > 1
           THEN << ValidationError("join_required",
                     << "Multiple tables referenced but join_path_id is NONE" >>,
                     "join_path_id", _suggest_join_paths(referenced_tables, ev)) >>
           ELSE << >>
      ELSE IF jp # << >> /\ ~(referenced_tables \subseteq Range(jp[1].tables))
      THEN << ValidationError("join_path_unreachable",
                << "join_path_id does not cover all referenced tables" >>,
                "join_path_id", _suggest_join_paths(referenced_tables, ev)) >>
      ELSE << >>

_has_time_field(ev) ==
  \/ TimeTypedOf(ev.schema_candidates) # {}
  \/ \E m \in Range(ev.metric_candidates) :
       \E i \in 1..Len(m.required_fields) :
          Lower(m.required_fields[i].field) \in TIME_FIELD_NAMES

\* the functions of the grain, for a plan of any intent
_required_funcs_AnyIntent(p) ==
  IF p.time_grain = "15m" THEN {"from_unixtime", "unix_timestamp"}
  ELSE IF p.time_grain \in {"hour", "day", "month"} THEN {"date_format"}
  ELSE IF p.time_grain = "week" THEN {"yearweek"}
  ELSE {}

_required_funcs(p) ==
  IF p.intent # "trend" THEN {}
  ELSE IF p.time_grain = "15m" THEN {"from_unixtime", "unix_timestamp"}
  ELSE IF p.time_grain \in {"hour", "day", "month"} THEN {"date_format"}
  ELSE IF p.time_grain = "week" THEN {"yearweek"}
  ELSE {}

_required_aggs(p, ev) ==
  IF p.metric_id = "" THEN {}
  ELSE IF FindMetric(p.metric_id, ev) # << >> THEN {"sum"}
  ELSE {}

\* errors of one required clause of one rule
ClauseErrors(p, rule, clause) ==
  (IF clause = "time_range" /\ "time_range" \notin DOMAIN p
   THEN << ValidationError("required_clause_missing",
             << "time_range required by template" >>, "time_range", << >>) >>
   ELSE << >>)
  \o (IF clause = "time_grain" /\ p.time_grain = ""
      THEN << ValidationError("required_clause_missing",
                << "time_grain required by template" >>, "time_grain",
                << << rule.intent >> >>) >>
      ELSE << >>)
  \o (IF clause = "group_by_time" /\ p.time_grain = ""
      THEN << ValidationError("required_clause_missing",
                << "group_by_time required by template" >>, "time_grain",
                << << "day" >> >>) >>
      ELSE << >>)
  \o (IF clause = "order_by" /\ p.sort = << >>
      THEN << ValidationError("required_clause_missing",
                << "sort required by template" >>, "sort", << << "metric", "desc" >> >>) >>
      ELSE << >>)
  \o (IF clause = "limit" /\ p.limit = 0
      THEN << ValidationError("required_clause_missing",
                << "limit required by template" >>, "limit", << << "10" >> >>) >>
      ELSE << >>)

RuleErrors(p, ev, rule) ==
  IF rule.intent # p.intent THEN << >>
  ELSE
    (IF _required_funcs(p) # {} /\ ~(_required_funcs(p) \subseteq Range(rule.allowed_funcs))
     THEN << ValidationError("function_not_allowed",
               << "Required functions not in allowlist" >>, "time_grain",
               IdTexts(rule.allowed_funcs)) >>
     ELSE << >>)
    \o (IF _required_aggs(p, ev) # {}
           /\ ~(_required_aggs(p, ev) \subseteq Range(rule.allowed_aggs))
        THEN << ValidationError("agg_not_allowed",
                  << "Required aggregations not in allowlist" >>, "metric_id",
                  IdTexts(rule.allowed_aggs)) >>
        ELSE << >>)
    \o Flatten([i \in 1..Len(rule.required_clauses) |->
                  ClauseErrors(p, rule, rule.required_clauses[i])])

\* every rule of the bundle applied, whatever its intent
_check_template_rules_EveryRule(p, ev) ==
  Flatten([i \in 1..Len(ev.template_rules) |->
             RuleErrors(p, ev, [ev.template_rules[i] EXCEPT !.intent = p.intent])])

_check_template_rules(p, ev) ==
  Flatten([i \in 1..Len(ev.template_rules) |-> RuleErrors(p, ev, ev.template_rules[i])])

MetricIdTexts(ev) == { << m.metric_id >> : m \in Range(ev.metric_candidates) }

SchemaFields(ev) == { KeyOf(s) : s \in Range(ev.schema_candidates) }

\* the dimension (or filter) errors, one per offending element, in order
FieldErrors(items, ev, code, what, path) ==
  LET bad == FilterSeq(items, { x \in Range(items) : KeyOf(x) \notin SchemaFields(ev) })
  IN  [i \in 1..Len(bad) |->
         ValidationError(code,
           << what, bad[i].table, bad[i].field, "not in schema candidates" >>, path,
           Take(SortedTexts({ KeyText(k) : k \in SchemaFields(ev) }), 5))]

\* join checks without the test of lines 67-79
JoinErrors_ReachabilityOnly(p, ev) == _check_join_reachability(p, ev)

JoinErrors(p, ev) ==
  LET join_ids == { j.join_path_id : j \in Range(ev.join_paths) }
      sugg == _suggest_join_paths(_collect_tables(p, ev), ev)
  IN  IF p.join_path_id # "NONE" /\ p.join_path_id \notin join_ids
      THEN << ValidationError("join_path_not_found", << "join_path_id not in candidates" >>,
                "join_path_id",
                IF sugg # << >> THEN sugg ELSE SortedTexts({ << j >> : j \in join_ids })) >>
      ELSE _check_join_reachability(p, ev)

TimeRangeErrors(p) ==
  LET start == p.time_range.start
      end == p.time_range.end
  IN  IF start # "" /\ end # ""
      THEN IF IsIsoDate(start) /\ IsIsoDate(end)
           THEN IF DateOrd(start) > DateOrd(end)
                THEN << ValidationError("time_range_invalid",
                          << "time_range.start is after end" >>, "time_range", << >>) >>
                ELSE << >>
           ELSE << ValidationError("time_range_invalid",
                     << "time_range must be YYYY-MM-DD" >>, "time_range",
                     << << "YYYY", "MM", "DD" >> >>) >>
      ELSE << ValidationError("time_range_missing", << "time_range is required" >>,
                "time_range", << >>) >>

SemanticErrors(p, ev) ==
  (IF << p.metric_id >> \notin MetricIdTexts(ev)
   THEN << ValidationError("metric_not_found", << "metric_id not in candidates" >>,
             "metric_id", SortedTexts(MetricIdTexts(ev))) >>
   ELSE << >>)
  \o FieldErrors(p.dimensions, ev, "dimension_field_invalid", "Dimension field", "dimensions")
  \o FieldErrors(p.filters, ev, "filter_field_invalid", "Filter field", "filters")
  \o JoinErrors(p, ev)
  \o TimeRangeErrors(p)
  \o (IF p.intent = "trend" /\ p.time_grain = ""
      THEN << ValidationError("time_grain_required",
                << "time_grain required for trend intent" >>, "time_grain",
                << << "15m" >>, << "hour" >>, << "day" >>, << "week" >>, << "month" >> >>) >>
      ELSE << >>)
  \o (IF ~_has_time_field(ev)
      THEN << ValidationError("time_field_missing",
                << "No time field found in schema candidates" >>, "time_range", << >>) >>
      ELSE << >>)
  \o _check_template_rules(p, ev)

\* a validator that reports a plan's errors on the first call only
validate_OncePerPlan(p, ev) ==
  IF trace.validate_calls > 0 THEN << >>
  ELSE IF ~IsDict(p)
  THEN << ValidationError("not_json", << "Plan is not a JSON object" >>, "$", << >>) >>
  ELSE IF validate_plan(p) # << >> THEN validate_plan(p)
  ELSE SemanticErrors(p, ev)

\* a validator that runs the semantic checks after the schema check whenever the
\* plan has the keys they read
validate_NoEarlyReturn(p, ev) ==
  IF ~IsDict(p)
  THEN << ValidationError("not_json", << "Plan is not a JSON object" >>, "$", << >>) >>
  ELSE validate_plan(p)
         \o (IF Range(RequiredKeys) \subseteq DOMAIN p THEN SemanticErrors(p, ev) ELSE << >>)

validate(p, ev) ==
  IF ~IsDict(p)
  THEN << ValidationError("not_json", << "Plan is not a JSON object" >>, "$", << >>) >>
  ELSE IF validate_plan(p) # << >> THEN validate_plan(p)
  ELSE SemanticErrors(p, ev)

----------------------------------------------------------------------------
(* models.py: PlanDSL.parse_obj *)

\* pydantic accepts the map as a PlanDSL (models.py: required fields and Literal types)
PydanticAccepts(p) ==
  /\ IsDict(p)
  /\ Range(RequiredKeys) \subseteq DOMAIN p
  /\ p.version = "1.0"
  /\ p.intent \in Intents
  /\ p.time_grain \in Grains
  /\ p.limit = 0 \/ (p.limit >= 1 /\ p.limit <= MaxLimit)
  /\ \A i \in 1..Len(p.filters) : p.filters[i].op \in FilterOps
  /\ \A i \in 1..Len(p.sort) : p.sort[i].order \in {"asc", "desc"}

----------------------------------------------------------------------------
(* compile/compiler.py.  The emitted query is kept as its syntax tree:     *)
(* select, from, joins, where (a conjunction), group_by, order_by, limit.  *)
(* A column is a Key; an alias or a bare column has table = "".            *)

JOIN_TYPE_MAP(t) ==
  CASE Lower(t) = "inner" -> "INNER"
    [] Lower(t) = "left" -> "LEFT"
    [] Lower(t) = "right" -> "RIGHT"
    [] OTHER -> "INNER"

DefaultLimit == 200

NoSql == [select |-> << >>, from |-> "", joins |-> << >>, where |-> << >>,
          group_by |-> << >>, order_by |-> << >>, limit |-> 0]

CompileError(msg, key) == [ok |-> FALSE, error |-> msg, key |-> key, sql |-> NoSql]

CompileOk(query) == [ok |-> TRUE, error |-> "", key |-> Key("", ""), sql |-> query]

Expr(kind, cols, text, alias) == [kind |-> kind, cols |-> cols, text |-> text, alias |-> alias]

_build_allowed_fields_WithPlanFields(p, ev) ==
  SchemaFields(ev) \cup { KeyOf(p.dimensions[i]) : i \in 1..Len(p.dimensions) }

_build_allowed_fields(p, ev) ==
  LET md == FindMetric(p.metric_id, ev)
      jp == FindJoinPath(p.join_path_id, ev)
  IN  SchemaFields(ev)
      \cup (IF md = << >> THEN {}
            ELSE { f \in Range(md[1].required_fields) : HasDot(f) })
      \cup (IF jp = << >> THEN {}
            ELSE UNION { { Key(e.left_table, e.left_field), Key(e.right_table, e.right_field) } :
                         e \in Range(jp[1].edges) })

_pick_time_field_AnyColumn(ev, metric_def) ==
  IF ev.schema_candidates = << >> THEN << >> ELSE << KeyOf(ev.schema_candidates[1]) >>

\* the (table, field) of the time column, as a 0/1-element sequence
_pick_time_field(ev, metric_def) ==
  LET sc == ev.schema_candidates
      i == FirstIdx(sc, TimeTypedOf(sc))
      rf == metric_def.required_fields
      j == FirstIdx(rf, { f \in Range(rf) : HasDot(f) /\ f.field \in {"ts", "date"} })
  IN  IF i # 0 THEN << KeyOf(sc[i]) >>
      ELSE IF j # 0 THEN << rf[j] >>
      ELSE << >>

_pick_base_table(p, ev, metric_def, time_table) ==
  LET jp == FindJoinPath(p.join_path_id, ev)
  IN  IF jp # << >> /\ jp[1].edges # << >> THEN jp[1].edges[1].left_table
      ELSE IF p.dimensions # << >> THEN p.dimensions[1].table
      ELSE IF metric_def.required_fields # << >> /\ HasDot(metric_def.required_fields[1])
      THEN metric_def.required_fields[1].table
      ELSE time_table

\* the SQL text of the bucket, with {col_ref} standing for table.field
\* a bucket table that formats every grain by day
BucketText_DayOnly(grain) ==
  IF grain \in {"15m", "hour", "day", "week", "month"} THEN "DATE_FORMAT({col_ref}, '%Y-%m-%d')"
  ELSE ""

BucketText(grain) ==
  CASE grain = "15m" -> "FROM_UNIXTIME(FLOOR(UNIX_TIMESTAMP({col_ref})/900)*900)"
    [] grain = "hour" -> "DATE_FORMAT({col_ref}, '%Y-%m-%d %H:00:00')"
    [] grain = "day" -> "DATE_FORMAT({col_ref}, '%Y-%m-%d')"
    [] grain = "week" -> "YEARWEEK({col_ref}, 1)"
    [] grain = "month" -> "DATE_FORMAT({col_ref}, '%Y-%m')"
    [] OTHER -> ""

\* 0/1-element sequence: empty when the grain is unsupported
_time_bucket_expr(col, grain) ==
  IF BucketText(grain) = "" THEN << >>
  ELSE << Expr("bucket", << col >>, BucketText(grain), "") >>

\* a metric expression that sums the first required field, whatever follows it
_metric_expr_FirstFieldOnly(metric_def) ==
  IF metric_def.required_fields = << >> \/ ~HasDot(metric_def.required_fields[1]) THEN << >>
  ELSE << Expr("SUM", << metric_def.required_fields[1] >>, "SUM({a})", "") >>

\* 0/1-element sequence: empty when the expression cannot be built
_metric_expr(metric_def) ==
  LET fields == metric_def.required_fields
  IN  IF fields = << >> THEN << >>
      ELSE IF Len(fields) = 1
      THEN IF HasDot(fields[1]) THEN << Expr("SUM", << fields[1] >>, "SUM({a})", "") >>
           ELSE << >>
      ELSE IF HasDot(fields[1]) /\ HasDot(fields[2])
      THEN << Expr("DIV", << fields[1], fields[2] >>, "SUM({a}) / NULLIF(SUM({b}), 0)", "") >>
      ELSE << >>

MetricExprError(metric_def) ==
  IF metric_def.required_fields = << >> THEN "metric required_fields empty"
  ELSE "not enough values to unpack"

Cond(col, op, value) == [col |-> col, op |-> op, value |-> value]

_time_range_filter(col, p) ==
  Cond(col, "BETWEEN", [is_list |-> TRUE,
                        items |-> << p.time_range.start, p.time_range.end >>])

\* "" when the filter compiles, else the message raised
FilterExprError(fil) ==
  IF fil.op = "in" /\ ~fil.value.is_list THEN "IN operator requires list value"
  ELSE IF fil.op = "between" /\ ~(fil.value.is_list /\ Len(fil.value.items) = 2)
  THEN "BETWEEN operator requires two values"
  ELSE IF fil.op \notin FilterOps THEN "Unsupported filter op"
  ELSE ""

_filter_expr(fil) == Cond(KeyOf(fil), fil.op, fil.value)

Ordered(col, order) == [col |-> col, desc |-> (order = "desc")]

\* [ok, order]: order is the 0/1-element ORDER BY list; ok = FALSE when it raises
_order_expr(p, allowed_fields) ==
  LET by == p.sort[1].by
      order == p.sort[1].order
  IN  IF ~HasDot(by) /\ by.field \in {"metric", p.metric_id}
      THEN [ok |-> TRUE, order |-> << Ordered(Key("", p.metric_id), order) >>]
      ELSE IF ~HasDot(by) /\ by.field \in {"time", "time_bucket"}
      THEN IF p.intent # "trend" THEN [ok |-> TRUE, order |-> << >>]
           ELSE [ok |-> TRUE, order |-> << Ordered(Key("", "time_bucket"), order) >>]
      ELSE IF HasDot(by)
      THEN IF by \notin allowed_fields THEN [ok |-> FALSE, order |-> << >>]
           ELSE [ok |-> TRUE, order |-> << Ordered(by, order) >>]
      ELSE IF \E f \in allowed_fields : f.field = by.field
      THEN [ok |-> TRUE, order |-> << Ordered(Key("", by.field), order) >>]
      ELSE [ok |-> FALSE, order |-> << >>]

\* the raise statements of compile after the time field is known, in execution order
CompileRaises(p, ev, allowed_fields, metric_def, time_col) ==
  LET badDim == FilterSeq(p.dimensions, { d \in Range(p.dimensions) : KeyOf(d) \notin allowed_fields })
      filErr(f) == IF KeyOf(f) \notin allowed_fields
                   THEN << CompileError("Filter field not allowed", KeyOf(f)) >>
                   ELSE IF FilterExprError(f) # ""
                   THEN << CompileError(FilterExprError(f), KeyOf(f)) >>
                   ELSE << >>
  IN  (IF p.intent = "trend" /\ _time_bucket_expr(time_col, p.time_grain) = << >>
       THEN << CompileError("Unsupported time_grain", Key("", p.time_grain)) >> ELSE << >>)
      \o (IF badDim # << >>
          THEN << CompileError("Dimension field not allowed", KeyOf(badDim[1])) >> ELSE << >>)
      \o (IF _metric_expr(metric_def) = << >>
          THEN << CompileError(MetricExprError(metric_def), Key("", p.metric_id)) >> ELSE << >>)
      \o Flatten([i \in 1..Len(p.filters) |-> filErr(p.filters[i])])
      \o (IF p.sort # << >> /\ ~_order_expr(p, allowed_fields).ok
          THEN << CompileError("Sort field not allowed", p.sort[1].by) >> ELSE << >>)

\* a compile without the default ordering
DefaultOrder_None(p) == << >>

\* compile lines 70-72: the ORDER BY of a plan without sort
DefaultOrder(p) ==
  IF p.intent = "trend" THEN << Ordered(Key("", "time_bucket"), "asc") >> ELSE << >>

\* the query built when nothing raises
CompileQuery(p, ev, allowed_fields, metric_def, time_col) ==
  LET bucket == IF p.intent = "trend"
                THEN << [_time_bucket_expr(time_col, p.time_grain)[1]
                           EXCEPT !.alias = "time_bucket"] >>
                ELSE << >>
      dims == [i \in 1..Len(p.dimensions) |->
                 Expr("column", << KeyOf(p.dimensions[i]) >>, "", "")]
      metric == [_metric_expr(metric_def)[1] EXCEPT !.alias = p.metric_id]
      jp == IF p.join_path_id = "NONE" THEN << >> ELSE FindJoinPath(p.join_path_id, ev)
      edges == IF jp = << >> THEN << >> ELSE jp[1].edges
      joins == [i \in 1..Len(edges) |->
                  [join_type |-> JOIN_TYPE_MAP(edges[i].join_type),
                   table |-> edges[i].right_table,
                   left |-> Key(edges[i].left_table, edges[i].left_field),
                   right |-> Key(edges[i].right_table, edges[i].right_field)]]
      group == (IF p.intent = "trend" THEN << Key("", "time_bucket") >> ELSE << >>)
               \o [i \in 1..Len(p.dimensions) |-> KeyOf(p.dimensions[i])]
      order == IF p.sort # << >> THEN _order_expr(p, allowed_fields).order
               ELSE DefaultOrder(p)
  IN  [select |-> bucket \o dims \o << metric >>,
       from |-> _pick_base_table(p, ev, metric_def, time_col.table),
       joins |-> joins,
       where |-> << _time_range_filter(time_col, p) >>
                 \o [i \in 1..Len(p.filters) |-> _filter_expr(p.filters[i])],
       group_by |-> group,
       order_by |-> order,
       limit |-> IF p.limit # 0 THEN p.limit ELSE DefaultLimit]

compile(p, ev) ==
  LET allowed_fields == _build_allowed_fields(p, ev)
      md == FindMetric(p.metric_id, ev)
      tf == _pick_time_field(ev, md[1])
      raises == CompileRaises(p, ev, allowed_fields, md[1], tf[1])
  IN  IF md = << >> THEN CompileError("metric_id not found in evidence", Key("", p.metric_id))
      ELSE IF tf = << >> THEN CompileError("No time field found for time_range", Key("", ""))
      ELSE IF raises # << >> THEN raises[1]
      ELSE CompileOk(CompileQuery(p, ev, allowed_fields, md[1], tf[1]))

----------------------------------------------------------------------------
(* rag/faiss_store.py and the four knowledge bases.  A query or a document *)
(* is the set of its tokens, set(_tokenize(text)).                         *)

\* tokens of the text a KB indexes for an item (kb_metric.py, kb_schema.py, ...)
MetricDocTokens(m) ==
  ({m.metric_id, m.name, m.default_time_grain}
   \cup UNION { {f.table, f.field} : f \in Range(m.required_fields) }) \ {""}

SchemaDocTokens(x) == ({x.table, x.field, x.data_type} \cup x.aliases) \ {""}

JoinDocTokens(j) == ({j.join_path_id} \cup Range(j.tables)) \ {""}

TemplateDocTokens(t) ==
  ({t.template_id, t.intent} \cup Range(t.allowed_aggs) \cup Range(t.allowed_funcs)
   \cup Range(t.required_clauses)) \ {""}

Doc(item, tokens) == [item |-> item, tokens |-> tokens, metadata |-> item]

\* the characters of a CJK word; _tokenize makes one token of each
CjkChars(w) ==
  CASE w = "u6392u540d" -> {"u6392", "u540d"}
    [] w = "u8d8bu52bf" -> {"u8d8b", "u52bf"}
    [] w = "u5bf9u6bd4" -> {"u5bf9", "u6bd4"}
    [] w = "u660eu7ec6" -> {"u660e", "u7ec6"}
    [] w = "u8d1fu8377" -> {"u8d1f", "u8377"}
    [] w = "u7ebfu635f" -> {"u7ebf", "u635f"}
    [] w = "u505cu7535" -> {"u505c", "u7535"}
    [] w = "u8df3u95f8" -> {"u8df3", "u95f8"}
    [] w = "u8d26u5355" -> {"u8d26", "u5355"}
    [] OTHER -> {w}

\* set(_tokenize(text)) for a text given by its words
_tokenize(words) == UNION { CjkChars(Lower(w)) : w \in words }

\* _cosine_sim divides by (len(a) ** 0.5) * (len(b) ** 0.5) in IEEE doubles.  For a
\* document of 9 tokens the product sqrt(|a|) * 3.0 is rounded, which moves the
\* quotient one unit in the last place below (-1) or above (+1) the double that a
\* document of 1 or 4 tokens with the same exact score gets.  Table for queries of
\* at most 40 tokens and documents of at most 10 tokens; every other pair of equal
\* exact scores in that range is a pair of equal doubles.
ScoreRounding(a, b) ==
  IF b # 9 THEN 0
  ELSE IF a \in {3, 12, 18, 19, 21, 39} THEN -1
  ELSE IF a \in {17, 22, 29, 30} THEN 1
  ELSE 0

\* score(q, d1) > score(q, d2) as doubles: a = |q|, i = |q & d|, b = |d|.  The exact
\* scores are compared by their squares times |q|.
ScoreGreater(a, i1, b1, i2, b2) ==
  \/ i1 * i1 * b2 > i2 * i2 * b1
  \/ /\ i1 * i1 * b2 = i2 * i2 * b1
     /\ ScoreRounding(a, b1) > ScoreRounding(a, b2)

\* query lines 30-32: the metadata test; an empty filter admits every document
FilterAdmits(metadata, filter) ==
  \A k \in DOMAIN filter : k \in DOMAIN metadata /\ metadata[k] = filter[k]

\* SimpleInMemoryVectorStore.query: the indices of the returned documents, docs
\* being in insertion order and text the query's words
StoreHits(docs, text, top_k, filter) ==
  LET q == _tokenize(text)
      inter(i) == Cardinality(q \cap _tokenize(docs[i].tokens))
      size(i) == Cardinality(_tokenize(docs[i].tokens))
      hit == { i \in 1..Len(docs) : FilterAdmits(docs[i].metadata, filter) /\ inter(i) > 0 }
      before(j, i) == \/ ScoreGreater(Cardinality(q), inter(j), size(j), inter(i), size(i))
                      \/ /\ ~ScoreGreater(Cardinality(q), inter(i), size(i), inter(j), size(j))
                         /\ j < i
      pos(i) == 1 + Cardinality({ j \in hit : before(j, i) })
      scored == [k \in 1..Cardinality(hit) |-> CHOOSE i \in hit : pos(i) = k]
  IN  IF q = {} THEN << >> ELSE Take(scored, top_k)

\* the catalogue items of the returned documents (KB.query)
StoreQuery(docs, text, top_k) ==
  LET found == StoreHits(docs, text, top_k, << >>)
  IN  [k \in 1..Len(found) |-> docs[found[k]].item]

MetricKB_query(data, q, top_k) ==
  StoreQuery([i \in 1..Len(data) |-> Doc(data[i], MetricDocTokens(data[i]))], q, top_k)

SchemaKB_query(data, q, top_k) ==
  StoreQuery([i \in 1..Len(data) |-> Doc(data[i], SchemaDocTokens(data[i]))], q, top_k)

JoinGraphKB_query(data, q, top_k) ==
  StoreQuery([i \in 1..Len(data) |-> Doc(data[i], JoinDocTokens(data[i]))], q, top_k)

TemplateKB_query(data, q, top_k) ==
  StoreQuery([i \in 1..Len(data) |-> Doc(data[i], TemplateDocTokens(data[i]))], q, top_k)

----------------------------------------------------------------------------
(* config.py *)

rag_top_k == 5

rag_top_k_second == 8

llm_plan_trim_top_k == 2

----------------------------------------------------------------------------
(* planning/planner.py: helpers.  A question is the set of its tokens; a   *)
(* substring test `term in question` is a token test.                      *)

\* question words the code looks for (CJK words are written by their code points)
W_RANK == "u6392u540d"

W_TREND == "u8d8bu52bf"

W_COMPARE == "u5bf9u6bd4"

W_DETAIL == "u660eu7ec6"

W_LOAD == "u8d1fu8377"

W_LOSS == "u7ebfu635f"

W_OUTAGE == "u505cu7535"

W_TRIP == "u8df3u95f8"

W_BILL == "u8d26u5355"

\* <<part, whole>>: part is a proper substring of the identifier whole
SubstringPairs ==
  { << "load", "load_rate" >>, << "load", "load_kw" >>, << "outage", "outage_count" >>,
    << "outage", "outage_cnt" >>, << "select", "selection" >> }

IsSubstring(part, whole) == part = whole \/ << part, whole >> \in SubstringPairs

_detect_intent(q) ==
  IF q \cap {W_RANK, "top", "rank"} # {} THEN "rank"
  ELSE IF q \cap {W_TREND, "trend"} # {} THEN "trend"
  ELSE IF q \cap {W_COMPARE, "u540cu6bd4", "u73afu6bd4", "compare"} # {} THEN "compare"
  ELSE IF q \cap {W_DETAIL, "detail"} # {} THEN "detail"
  ELSE ""

\* the four bags of terms, each as the set of tokens it adds to a query
_parse_slots(q, k) ==
  LET hitS == { x \in Range(k.schema) : ({x.table, x.field} \cup x.aliases) \cap q # {} }
  IN  [metric_terms |-> UNION { {m.metric_id, m.name} \cap q : m \in Range(k.metric) },
       schema_terms |-> UNION { {x.table, x.field} : x \in hitS },
       object_terms |-> { x.table : x \in hitS },
       intent_terms |-> IF _detect_intent(q) = "" THEN {} ELSE {_detect_intent(q)}]

\* tokens of " ".join(terms + [text])
_build_query(q, terms) == terms \cup q

\* the retrieved rows as they come
_ensure_time_fields_AsRetrieved(schema_candidates, k, force_all) == schema_candidates

_ensure_time_fields(schema_candidates, k, force_all) ==
  LET time_fields == FilterSeq(k.schema, TimeTypedOf(k.schema))
      have == { KeyOf(x) : x \in Range(schema_candidates) }
  IN  IF ~force_all /\ TimeTypedOf(schema_candidates) # {} THEN schema_candidates
      ELSE schema_candidates
           \o FilterSeq(time_fields, { x \in Range(time_fields) : KeyOf(x) \notin have })

_retrieve(q, slots, top_k, k) ==
  EvidenceBundle(
    MetricKB_query(k.metric, _build_query(q, slots.metric_terms), top_k),
    _ensure_time_fields(
      SchemaKB_query(k.schema, _build_query(q, slots.schema_terms), top_k), k, FALSE),
    JoinGraphKB_query(k.join,
      _build_query(q, slots.object_terms \cup slots.schema_terms), top_k),
    TemplateKB_query(k.template, _build_query(q, slots.intent_terms), top_k))

_trim_evidence_Untrimmed(ev, top_k) == ev

_trim_evidence(ev, top_k) ==
  EvidenceBundle(Take(ev.metric_candidates, Max2(1, top_k)),
                 Take(ev.schema_candidates, Max2(1, top_k)),
                 Take(ev.join_paths, Max2(1, top_k)),
                 Take(ev.template_rules, Max2(1, top_k)))

_collect_suggestions(errors) ==
  Take(Flatten([i \in 1..Len(errors) |-> errors[i].suggestions]), 8)

_has_error(errors, code) == \E i \in 1..Len(errors) : errors[i].code = code

_augment_evidence_for_errors(ev, errors, k) ==
  EvidenceBundle(
    IF _has_error(errors, "metric_not_found") /\ ev.metric_candidates = << >>
      THEN k.metric ELSE ev.metric_candidates,
    IF _has_error(errors, "time_field_missing")
      THEN _ensure_time_fields(ev.schema_candidates, k, TRUE) ELSE ev.schema_candidates,
    ev.join_paths, ev.template_rules)

\* SQL_KEYWORDS.search(text): a keyword standing as a whole word, in any letter case
_contains_sql_keywords(text) ==
  \/ \E i \in 1..Len(text) :
       Lower(text[i]) \in {"select", "from", "where", "join", "insert", "update", "delete"}
  \/ \E i \in 1..(Len(text) - 1) :
       Lower(text[i]) \in {"group", "order"} /\ Lower(text[i + 1]) = "by"

\* the string values json.dumps(plan) writes, each as a text; no key of the
\* Plan DSL is a keyword, and "order" is never followed by white space and "by"
PlanTexts(p) ==
  LET has(k) == k \in DOMAIN p
      list(k) == IF has(k) THEN Range(p[k]) ELSE {}
  IN  { << p[k] >> : k \in DOMAIN p \cap {"version", "intent", "metric_id", "time_grain", "join_path_id"} }
      \cup (IF has("time_range") THEN {<< p.time_range.start >>, << p.time_range.end >>} ELSE {})
      \cup UNION { {<< d.table >>, << d.field >>} : d \in list("dimensions") }
      \cup UNION { {<< f.table >>, << f.field >>, f.value.items} : f \in list("filters") }
      \cup UNION { {<< x.by.table >>, << x.by.field >>} : x \in list("sort") }
      \cup list("clarifications")

PlanHasSqlKeywords_Never(p) == FALSE

PlanHasSqlKeywords(p) == \E t \in PlanTexts(p) : _contains_sql_keywords(t)

\* `token in text` for the metric's joined, lower-cased text
TokenInMetricText(tok, m) ==
  \E w \in ({m.metric_id, m.name} \cup UNION { {f.table, f.field} : f \in Range(m.required_fields) }) :
     IsSubstring(tok, w)

AutoFixScore(q, m) ==
  2 * Cardinality({ tok \in q : TokenInMetricText(tok, m) })
  + (IF q \cap {"u91d1u989d", "u8d39u7528", "cost", "amount"} # {}
        /\ (TokenInMetricText("amount", m) \/ TokenInMetricText("total_amount", m))
     THEN 5 ELSE 0)
  + (IF q \cap {"u7528u7535u91cf", "u7528u7535", "u7535u91cf", "consumption", "kwh"} # {}
        /\ TokenInMetricText("consumption", m)
     THEN 5 ELSE 0)
  + (IF W_BILL \in q /\ \E f \in Range(m.required_fields) : f.table = "bills"
     THEN 3 ELSE 0)

\* the id of the last metric with the greatest score
_auto_fix_metric_id_LastOnTie(q, metrics) ==
  LET best == { i \in 1..Len(metrics) :
                  \A j \in 1..Len(metrics) : AutoFixScore(q, metrics[j]) <= AutoFixScore(q, metrics[i]) }
  IN  IF metrics = << >> THEN ""
      ELSE metrics[CHOOSE i \in best : \A j \in best : j <= i].metric_id

\* the id of the first metric with the greatest score, "" for an empty catalogue
_auto_fix_metric_id(q, metrics) ==
  LET best == { i \in 1..Len(metrics) :
                  /\ \A j \in 1..Len(metrics) : AutoFixScore(q, metrics[j]) <= AutoFixScore(q, metrics[i])
                  /\ \A j \in 1..(i - 1) : AutoFixScore(q, metrics[j]) < AutoFixScore(q, metrics[i]) }
  IN  IF metrics = << >> THEN "" ELSE metrics[CHOOSE i \in best : TRUE].metric_id

\* Planner._pick_time_table: the first time-typed candidate's table
Planner_pick_time_table(ev) ==
  LET i == FirstIdx(ev.schema_candidates, TimeTypedOf(ev.schema_candidates))
  IN  IF i = 0 THEN "" ELSE ev.schema_candidates[i].table

_ensure_no_llm_evidence(ev, k) ==
  EvidenceBundle(
    IF ev.metric_candidates # << >> THEN ev.metric_candidates ELSE k.metric,
    IF ev.schema_candidates # << >> THEN ev.schema_candidates ELSE k.schema,
    IF ev.join_paths # << >> THEN ev.join_paths ELSE k.join,
    IF ev.template_rules # << >> THEN ev.template_rules ELSE k.template)

\* 0/1-element sequence: the metric, or nothing when the fixed id is unknown
_pick_fixed_metric(ev, k, fixed) ==
  LET inEv == FirstIdx(ev.metric_candidates,
                       { m \in Range(ev.metric_candidates) : m.metric_id = fixed })
      inKb == FirstIdx(k.metric, { m \in Range(k.metric) : m.metric_id = fixed })
  IN  IF fixed = "" THEN << ev.metric_candidates[1] >>
      ELSE IF inEv # 0 THEN << ev.metric_candidates[inEv] >>
      ELSE IF inKb # 0 THEN << k.metric[inKb] >>
      ELSE << >>

PlanMap(intent, metric_id, dimensions, tr, grain, filters, join_path_id, sort, limit, output, confidence, clarifications) ==
  [version |-> "1.0", intent |-> intent, metric_id |-> metric_id,
   dimensions |-> dimensions, time_range |-> tr, time_grain |-> grain,
   filters |-> filters, join_path_id |-> join_path_id, sort |-> sort, limit |-> limit,
   output |-> output, confidence |-> confidence, clarifications |-> clarifications]

TimeRange(start, end) == [start |-> start, end |-> end]

OutputSpec(format, chart) == [format |-> format, chart_suggest |-> chart]

\* a time_range test that looks at the argument's presence only
TimeRangeMissing_OnlyAbsent(tr) == tr = << >>

\* _build_fixed_plan line 288: no time_range, or start or end missing or empty
TimeRangeMissing(tr) == tr = << >> \/ tr[1].start = "" \/ tr[1].end = ""

\* [ok, error, plan]: _build_fixed_plan's plan, or the message it raises
_build_fixed_plan(ev, tr, k, fixed) ==
  LET picked == _pick_fixed_metric(ev, k, fixed)
      metric == picked[1]
      time_table == Planner_pick_time_table(ev)
      tables == MetricTables(metric) \cup (IF time_table # "" THEN {time_table} ELSE {})
      j == FirstIdx(ev.join_paths,
                    { jp \in Range(ev.join_paths) : tables \subseteq Range(jp.tables) })
      join_path_id == IF Cardinality(tables) > 1 /\ j # 0
                      THEN ev.join_paths[j].join_path_id ELSE "NONE"
      fail(msg) == [ok |-> FALSE, error |-> msg, plan |-> NotAMap]
  IN  IF TimeRangeMissing(tr)
      THEN fail("no_llm mode requires time_range")
      ELSE IF ev.metric_candidates = << >>
      THEN fail("no_llm mode requires metric candidates")
      ELSE IF picked = << >> THEN fail("no_llm mode fixed_metric_id not found")
      ELSE IF Cardinality(tables) > 1 /\ join_path_id = "NONE"
      THEN fail("no_llm mode cannot find join_path for required tables")
      ELSE [ok |-> TRUE, error |-> "",
            plan |-> PlanMap("aggregate", metric.metric_id, << >>,
                       TimeRange(tr[1].start, tr[1].end),
                       IF metric.default_time_grain # "" THEN metric.default_time_grain
                       ELSE "day",
                       << >>, join_path_id, << >>, 200,
                       OutputSpec("single_value", "none"), "0.1",
                       << << "no_llm", "mode", "fixed", "plan", "for", "SQL", "DB", "test" >> >>)]

----------------------------------------------------------------------------
(* llm/mock_client.py: MockLLMClient.generate_json *)

Mock_pick_metric(cands, q) ==
  LET first(S) == FirstIdx(cands, S)
      loss == { m \in Range(cands) : IsSubstring(W_LOSS, m.name) \/ IsSubstring("loss", m.metric_id) }
      load == { m \in Range(cands) : IsSubstring(W_LOAD, m.name) \/ IsSubstring("load", m.metric_id) }
      outage == { m \in Range(cands) : IsSubstring("outage", m.metric_id) }
      trip == { m \in Range(cands) : IsSubstring("trip", m.metric_id) }
  IN  IF cands = << >> THEN "UNKNOWN"
      ELSE IF W_LOSS \in q /\ first(loss) # 0 THEN cands[first(loss)].metric_id
      ELSE IF W_LOAD \in q /\ first(load) # 0 THEN cands[first(load)].metric_id
      ELSE IF W_OUTAGE \in q /\ first(outage) # 0 THEN cands[first(outage)].metric_id
      ELSE IF W_TRIP \in q /\ first(trip) # 0 THEN cands[first(trip)].metric_id
      ELSE cands[1].metric_id

Mock_pick_intent(q) ==
  IF q \cap {W_RANK, "top"} # {} THEN "rank"
  ELSE IF q \cap {W_COMPARE, "u540cu6bd4", "u73afu6bd4"} # {} THEN "compare"
  ELSE IF W_DETAIL \in q THEN "detail"
  ELSE IF W_TREND \in q THEN "trend"
  ELSE "aggregate"

\* field.endswith("_name")
EndsWithName(f) == f \in {"feeder_name"}

Mock_pick_dimension(sc) ==
  LET i == FirstIdx(sc, { x \in Range(sc) : EndsWithName(x.field) })
  IN  IF i # 0 THEN << KeyOf(sc[i]) >>
      ELSE IF sc # << >> THEN << KeyOf(sc[1]) >>
      ELSE << >>

Mock_pick_sort(intent) ==
  IF intent = "rank" THEN << [by |-> Key("", "metric"), order |-> "desc"] >>
  ELSE IF intent = "trend" THEN << [by |-> Key("", "time_bucket"), order |-> "asc"] >>
  ELSE << [by |-> Key("", "metric"), order |-> "desc"] >>

Mock_pick_output(intent) ==
  IF intent = "trend" THEN OutputSpec("table", "line")
  ELSE IF intent = "rank" THEN OutputSpec("table", "bar")
  ELSE OutputSpec("table", "none")

\* q, ev, tr: the question, evidence and time_range found in the prompt's payload
Mock_generate_json(q, ev, tr) ==
  LET metric_id == Mock_pick_metric(ev.metric_candidates, q)
      intent == Mock_pick_intent(q)
      same == FilterSeq(ev.metric_candidates,
                        { m \in Range(ev.metric_candidates) : m.metric_id = metric_id })
  IN  PlanMap(intent, metric_id,
              IF intent \in {"trend", "rank"} THEN Mock_pick_dimension(ev.schema_candidates)
              ELSE << >>,
              IF tr # << >> THEN tr[1] ELSE TimeRange("2024-01-01", "2024-01-31"),
              IF same # << >> THEN same[Len(same)].default_time_grain ELSE "day",
              << >>,
              IF ev.join_paths # << >> THEN ev.join_paths[1].join_path_id ELSE "NONE",
              Mock_pick_sort(intent),
              IF intent = "rank" THEN 10 ELSE 200,
              Mock_pick_output(intent), "0.6", << >>)

----------------------------------------------------------------------------
(* Knowledge bases, requests and settings the requests run against *)

M_load_rate ==
  MetricDef("load_rate", W_LOAD, << Key("feeder", "load_kw"), Key("feeder", "capacity_kw") >>, "day")

M_outage_count ==
  MetricDef("outage_count", W_OUTAGE, << Key("transformer", "outage_cnt") >>, "")

S_feeder_id == SchemaEntity("feeder", "feeder_id", {}, "string")

S_feeder_ts == SchemaEntity("feeder", "ts", {}, "datetime")

S_load_kw == SchemaEntity("feeder", "load_kw", {}, "double")

S_capacity_kw == SchemaEntity("feeder", "capacity_kw", {}, "double")

S_outage_cnt == SchemaEntity("transformer", "outage_cnt", {}, "int")

S_tr_feeder_id == SchemaEntity("transformer", "feeder_id", {}, "string")

J_feeder_transformer ==
  JoinPath("feeder_transformer", << "feeder", "transformer" >>,
           << JoinEdge("feeder", "feeder_id", "transformer", "feeder_id", "inner") >>)

T_trend ==
  TemplateRule("trend_template", "trend", << "sum" >>, << "date_format" >>,
               << "time_range", "time_grain" >>)

T_aggregate ==
  TemplateRule("aggregate_template", "aggregate", << "sum" >>, << >>, << "time_range" >>)

\* an aggregate policy that allows averages only
T_aggregate_avg ==
  TemplateRule("aggregate_template", "aggregate", << "avg" >>, << >>, << "time_range" >>)

KB_A ==
  [metric |-> << M_load_rate, M_outage_count >>,
   schema |-> << S_feeder_id, S_feeder_ts, S_load_kw, S_capacity_kw, S_outage_cnt,
                 S_tr_feeder_id >>,
   join |-> << J_feeder_transformer >>,
   template |-> << T_trend, T_aggregate >>]

KB_B ==
  [metric |-> << M_load_rate >>,
   schema |-> << S_feeder_id, S_feeder_ts, S_load_kw >>,
   join |-> << >>,
   template |-> << T_aggregate_avg >>]

\* a catalogue whose time columns come last
KB_C ==
  [metric |-> << M_load_rate, M_outage_count >>,
   schema |-> << S_feeder_id, S_load_kw, S_capacity_kw, S_outage_cnt, S_tr_feeder_id,
                 S_feeder_ts, SchemaEntity("transformer", "ts", {}, "datetime") >>,
   join |-> << J_feeder_transformer >>,
   template |-> << T_trend, T_aggregate >>]

KnowledgeBases == {KB_A, KB_B, KB_C}

Questions ==
  { {"load_rate", W_TREND}, {"feeder", "transformer", "outage_count"}, {} }

TimeRanges ==
  { << >>, << TimeRange("2024-01-01", "2024-01-31") >>,
    << TimeRange("2024-01-31", "2024-01-01") >>, << TimeRange("2024-01-01", "") >> }

Requests == [question : Questions, time_range : TimeRanges]

Settings(mode, retry, fixed) ==
  [llm_mode |-> mode, llm_plan_retry_on_timeout |-> retry, fixed_metric_id |-> fixed]

SettingsChoices ==
  { Settings("no_llm", TRUE, ""), Settings("no_llm", TRUE, "outage_count"),
    Settings("mock", TRUE, ""), Settings("real", TRUE, ""), Settings("real", FALSE, "") }

----------------------------------------------------------------------------
(* llm/client.py: what RealLLMClient.generate_json can hand back *)

DefaultRange == TimeRange("2024-01-01", "2024-01-31")

LlmPlan(intent, metric_id, dimensions, tr, join_path_id, clarifications) ==
  PlanMap(intent, metric_id, dimensions, tr, "day", << >>, join_path_id, << >>, 100,
          OutputSpec("table", "none"), "0.9", clarifications)

GoodTrend == LlmPlan("trend", "load_rate", << >>, DefaultRange, "NONE", << >>)

GoodAggregate == LlmPlan("aggregate", "load_rate", << >>, DefaultRange, "NONE", << >>)

BadDimension ==
  LlmPlan("trend", "load_rate", << Key("feeder", "bad_field") >>, DefaultRange, "NONE", << >>)

UnknownMetric == LlmPlan("trend", "UNKNOWN", << >>, DefaultRange, "NONE", << >>)

KeywordMetric == LlmPlan("trend", "select", << >>, DefaultRange, "NONE", << >>)

KeywordNote ==
  LlmPlan("trend", "load_rate", << >>, DefaultRange, "NONE", << << "select", "all" >> >>)

KeywordNoteBadDimension ==
  LlmPlan("trend", "load_rate", << Key("feeder", "bad_field") >>, DefaultRange, "NONE",
          << << "drop", "FROM", "here" >> >>)

GroupByNote ==
  LlmPlan("trend", "load_rate", << >>, DefaultRange, "NONE", << << "group", "by", "day" >> >>)

EmbeddedKeywordNote ==
  LlmPlan("trend", "load_rate", << >>, DefaultRange, "NONE", << << "selection", "done" >> >>)

GhostJoin == LlmPlan("trend", "load_rate", << >>, DefaultRange, "ghost_path", << >>)

UppercaseKeywordNote ==
  LlmPlan("trend", "load_rate", << >>, DefaultRange, "NONE", << << "SELECT" >> >>)

\* two things wrong at once
BadDimensionGhostJoin ==
  LlmPlan("trend", "load_rate", << Key("feeder", "bad_field") >>, DefaultRange, "ghost_path",
          << >>)

ReversedRange ==
  LlmPlan("trend", "load_rate", << >>, TimeRange("2024-01-31", "2024-01-01"), "NONE", << >>)

SchemaInvalid == [version |-> "1.0"]

LLMPlans ==
  { GoodTrend, GoodAggregate, BadDimension, UnknownMetric, KeywordMetric, KeywordNote,
    KeywordNoteBadDimension, GroupByNote, EmbeddedKeywordNote, UppercaseKeywordNote, GhostJoin,
    BadDimensionGhostJoin, ReversedRange,
    SchemaInvalid }

Raised(text) == [kind |-> "raise", text |-> text, plan |-> NotAMap]

Returned(p) == [kind |-> "dict", text |-> << >>, plan |-> p]

ReturnedText(text) == [kind |-> "str", text |-> text, plan |-> NotAMap]

\* a JSON value that is neither an object nor a string
ReturnedList(text) == [kind |-> "list", text |-> text, plan |-> NotAMap]

RealResponses ==
  { Raised(<< "Request", "timed", "out" >>), Raised(<< "read", "timeout" >>),
    Raised(<< "connection", "refused" >>),
    ReturnedText(<< "SELECT", "x", "FROM", "t" >>), ReturnedText(<< "no", "plan" >>),
    ReturnedList(<< "select" >>) }
  \cup { Returned(p) : p \in LLMPlans }

----------------------------------------------------------------------------
(* engine.py: Text2SQLEngine.run_query driving planner.py: generate_plan   *)

NoPlan == [pytype |-> "unset"]

NoResult == [returned |-> FALSE]

Running == [status |-> "running", stage |-> "", error |-> "", messages |-> << >>]

EmptyBundle == EvidenceBundle(<< >>, << >>, << >>, << >>)

NoTrace ==
  [llm_calls |-> << >>, retrievals |-> << >>, validate_calls |-> 0,
   validated |-> << >>, passes |-> << >>, compile_calls |-> << >>]

NoHits == [asked |-> FALSE]

NoOther == [pc |-> "absent"]

Init ==
  /\ settings \in SettingsChoices
  /\ kb \in KnowledgeBases
  /\ request \in Requests
  /\ pc = "start"
  /\ stage = "init"
  /\ evidence = EmptyBundle
  /\ plan = NoPlan
  /\ plan_initial = NoPlan
  /\ initial_shared = FALSE
  /\ validation_errors = << >>
  /\ plan_result = NoResult
  /\ sql = CompileError("", Key("", ""))
  /\ outcome = Running
  /\ trace = NoTrace
  /\ store = << >>
  /\ hits = NoHits
  /\ other = NoOther

\* run_query's except clause: the error leaves labelled with the current stage
Raise(label, message, messages) ==
  /\ pc' = "failed"
  /\ outcome' = [status |-> "error", stage |-> label, error |-> message,
                 messages |-> messages]

\* "timeout" in msg or "timed out" in msg, msg = str(exc).lower()
_is_timeout_error(text) ==
  \/ \E i \in 1..Len(text) : IsSubstring("timeout", Lower(text[i]))
  \/ \E i \in 1..(Len(text) - 1) : Lower(text[i]) = "timed" /\ Lower(text[i + 1]) = "out"

\* what generate_json hands back for a prompt carrying question q, evidence ev, time_range tr
LlmResponses(q, ev, tr) ==
  IF settings.llm_mode = "real" THEN RealResponses
  ELSE { Returned(Mock_generate_json(q, ev, tr)) }

LlmCall(marker, ev, resp) == [marker |-> marker, evidence |-> ev, response |-> resp]

isinstance_dict_Any(resp) == TRUE

\* isinstance(plan, dict)
isinstance_dict(resp) == resp.kind = "dict"

\* the isinstance(plan, dict) guard closing _call_llm
NonObjectMessage(resp) ==
  IF resp.kind = "str" /\ _contains_sql_keywords(resp.text)
  THEN "LLM output contains SQL keywords"
  ELSE "LLM output is not JSON"

\* generate_plan lines 66-67: slot parsing and the first retrieval
Retrieve ==
  /\ pc = "start"
  /\ stage' = "plan"
  /\ evidence' = _retrieve(request.question, _parse_slots(request.question, kb), rag_top_k, kb)
  /\ trace' = [trace EXCEPT !.retrievals = Append(@, rag_top_k)]
  /\ pc' = "acquire"
  /\ UNCHANGED << other, store, hits, settings, kb, request, plan, plan_initial, initial_shared,
                  validation_errors, plan_result, sql, outcome >>

\* generate_plan lines 68-72: the no_llm branch
BuildFixedPlan ==
  /\ pc = "acquire"
  /\ settings.llm_mode = "no_llm"
  /\ LET ev == _ensure_no_llm_evidence(evidence, kb)
         r == _build_fixed_plan(ev, request.time_range, kb, settings.fixed_metric_id)
     IN  /\ evidence' = ev
         /\ IF r.ok
            THEN /\ plan' = r.plan
                 /\ plan_initial' = r.plan
                 /\ initial_shared' = TRUE
                 /\ validation_errors' = << >>
                 /\ pc' = "final"
                 /\ UNCHANGED outcome
            ELSE /\ Raise(stage, r.error, << >>)
                 /\ UNCHANGED << plan, plan_initial, initial_shared, validation_errors >>
  /\ UNCHANGED << other, store, hits, settings, kb, request, stage, plan_result, sql, trace >>

\* _call_llm: the first generate_json call
CallLlm ==
  /\ pc = "acquire"
  /\ settings.llm_mode # "no_llm"
  /\ \E resp \in LlmResponses(request.question, evidence, request.time_range) :
       /\ trace' = [trace EXCEPT !.llm_calls = Append(@, LlmCall("<INPUTS>", evidence, resp))]
       /\ CASE resp.kind = "raise" ->
                 /\ IF settings.llm_plan_retry_on_timeout /\ _is_timeout_error(resp.text)
                    THEN pc' = "retry" /\ UNCHANGED outcome
                    ELSE Raise(stage, "LLM plan generation failed", << resp.text >>)
                 /\ UNCHANGED << plan, plan_initial, initial_shared >>
            [] resp.kind # "raise" /\ isinstance_dict(resp) ->
                 /\ plan' = resp.plan
                 /\ plan_initial' = resp.plan
                 /\ initial_shared' = TRUE
                 /\ pc' = "validate"
                 /\ UNCHANGED outcome
            [] OTHER ->
                 /\ Raise(stage, NonObjectMessage(resp), << >>)
                 /\ UNCHANGED << plan, plan_initial, initial_shared >>
  /\ UNCHANGED << other, store, hits, settings, kb, request, stage, evidence, validation_errors, plan_result, sql >>

\* _call_llm: the retry with trimmed evidence after a timeout
CallLlmTrimmed ==
  /\ pc = "retry"
  /\ LET trimmed == _trim_evidence(evidence, llm_plan_trim_top_k)
     IN  \E resp \in LlmResponses(request.question, trimmed, request.time_range) :
           /\ trace' = [trace EXCEPT !.llm_calls =
                          Append(@, LlmCall("<INPUTS_TRIMMED>", trimmed, resp))]
           /\ CASE resp.kind = "raise" ->
                     /\ Raise(stage, "LLM plan generation failed (timeout, trimmed retry failed)",
                              << resp.text >>)
                     /\ UNCHANGED << plan, plan_initial, initial_shared >>
                [] resp.kind # "raise" /\ isinstance_dict(resp) ->
                     /\ plan' = resp.plan
                     /\ plan_initial' = resp.plan
                     /\ initial_shared' = TRUE
                     /\ pc' = "validate"
                     /\ UNCHANGED outcome
                [] OTHER ->
                     /\ Raise(stage, NonObjectMessage(resp), << >>)
                     /\ UNCHANGED << plan, plan_initial, initial_shared >>
  /\ UNCHANGED << other, store, hits, settings, kb, request, stage, evidence, validation_errors, plan_result, sql >>

\* validator.validate followed by the metric auto-fix and its second validate
\* (generate_plan lines 77-88 and 99-110): [plan, evidence, errors, calls]
ValidateAndFix(p, ev) ==
  LET first == validate(p, ev)
      fix == _has_error(first, "metric_not_found")
      widened == EvidenceBundle(kb.metric, ev.schema_candidates, ev.join_paths,
                                ev.template_rules)
      fixed_metric_id == _auto_fix_metric_id(request.question, kb.metric)
      patched == IF fixed_metric_id # "" THEN [p EXCEPT !.metric_id = fixed_metric_id] ELSE p
  IN  IF fix
      THEN [plan |-> patched, evidence |-> widened, errors |-> validate(patched, widened),
            calls |-> 2]
      ELSE [plan |-> p, evidence |-> ev, errors |-> first, calls |-> 1]

Validated(r) == << [plan |-> r.plan, evidence |-> r.evidence, errors |-> r.errors] >>

AfterPass1_AlwaysRepair(errors) == "repair"

\* generate_plan line 90, `if validation_errors:` -- where pass 1 leads
AfterPass1(errors) == IF errors # << >> THEN "repair" ELSE "final"

\* generate_plan lines 77-88: validation pass 1
ValidatePass1 ==
  /\ pc = "validate"
  /\ LET r == ValidateAndFix(plan, evidence)
     IN  /\ plan' = r.plan
         /\ plan_initial' = IF initial_shared THEN r.plan ELSE plan_initial
         /\ evidence' = r.evidence
         /\ validation_errors' = r.errors
         /\ trace' = [trace EXCEPT !.validate_calls = @ + r.calls, !.validated = Validated(r),
                        !.passes = Append(@, r.errors)]
         /\ pc' = AfterPass1(r.errors)
  /\ UNCHANGED << other, store, hits, settings, kb, request, stage, initial_shared, plan_result, sql, outcome >>

\* tokens of " ".join([question] + suggestions)
RefineQuery(q, suggestions) == q \cup UNION { Range(t) : t \in Range(suggestions) }

\* the repair round working on the augmented pass-1 bundle
RepairEvidence_Augmented(ev, errors) == _augment_evidence_for_errors(ev, errors, kb)

\* generate_plan lines 91-97: the bundle the repair round works on
RepairEvidence(ev, errors) ==
  LET augmented == _augment_evidence_for_errors(ev, errors, kb)
      refine_query == RefineQuery(request.question, _collect_suggestions(errors))
  IN  _retrieve(refine_query, _parse_slots(refine_query, kb), rag_top_k_second, kb)

RepairRetrieve ==
  /\ pc = "repair"
  /\ evidence' = RepairEvidence(evidence, validation_errors)
  /\ trace' = [trace EXCEPT !.retrievals = Append(@, rag_top_k_second)]
  /\ pc' = "repair_call"
  /\ UNCHANGED << other, store, hits, settings, kb, request, stage, plan, plan_initial, initial_shared,
                  validation_errors, plan_result, sql, outcome >>

\* repair.py: PlanRepair.repair; its prompt carries no question and no time_range
repair ==
  /\ pc = "repair_call"
  /\ \E resp \in LlmResponses({}, evidence, << >>) :
       /\ trace' = [trace EXCEPT !.llm_calls = Append(@, LlmCall("repair", evidence, resp))]
       /\ CASE resp.kind = "raise" ->
                 /\ Raise(stage, "generate_json raised", << resp.text >>)
                 /\ UNCHANGED << plan, initial_shared >>
            [] resp.kind # "raise" /\ isinstance_dict(resp) ->
                 /\ plan' = resp.plan
                 /\ initial_shared' = FALSE
                 /\ pc' = "revalidate"
                 /\ UNCHANGED outcome
            [] OTHER ->
                 /\ Raise(stage, "LLM repair output is not JSON", << >>)
                 /\ UNCHANGED << plan, initial_shared >>
  /\ UNCHANGED << other, store, hits, settings, kb, request, stage, evidence, plan_initial, validation_errors,
                  plan_result, sql >>

\* generate_plan lines 98-110: validation pass 2
ValidatePass2 ==
  /\ pc = "revalidate"
  /\ LET r == ValidateAndFix(plan, evidence)
     IN  /\ plan' = r.plan
         /\ evidence' = r.evidence
         /\ validation_errors' = r.errors
         /\ trace' = [trace EXCEPT !.validate_calls = @ + r.calls, !.validated = Validated(r),
                        !.passes = Append(@, r.errors)]
         /\ pc' = "final"
  /\ UNCHANGED << other, store, hits, settings, kb, request, stage, plan_initial, initial_shared, plan_result,
                  sql, outcome >>

ErrorMessages_FirstOnly(errors) == << errors[1].message >>

ErrorMessages(errors) == [i \in 1..Len(errors) |-> errors[i].message]

\* a PlanResult that carries the bundle of the first retrieval
PlanResult_FirstRetrieval(p, initial, ev, errors, metric_def) ==
  [returned |-> TRUE, plan |-> p, plan_initial |-> initial,
   evidence |-> _retrieve(request.question, _parse_slots(request.question, kb), rag_top_k, kb),
   validation_errors |-> errors, metric_def |-> metric_def]

PlanResult(p, initial, ev, errors, metric_def) ==
  [returned |-> TRUE, plan |-> p, plan_initial |-> initial, evidence |-> ev,
   validation_errors |-> errors, metric_def |-> metric_def]

\* generate_plan lines 112-131 and run_query's stage = "compile"
Finish ==
  /\ pc = "final"
  /\ IF validation_errors # << >>
     THEN /\ Raise(stage, "Plan validation failed", ErrorMessages(validation_errors))
          /\ UNCHANGED << stage, plan_result >>
     ELSE IF PlanHasSqlKeywords(plan)
     THEN /\ Raise(stage, "LLM output contains SQL keywords", << >>)
          /\ UNCHANGED << stage, plan_result >>
     ELSE IF ~PydanticAccepts(plan)
     THEN /\ Raise(stage, "PlanDSL validation error", << >>)
          /\ UNCHANGED << stage, plan_result >>
     ELSE IF FindMetric(plan.metric_id, evidence) = << >>
     THEN /\ Raise(stage, "metric_id not found in evidence", << >>)
          /\ UNCHANGED << stage, plan_result >>
     ELSE /\ plan_result' = PlanResult(plan, plan_initial, evidence, validation_errors,
                                       FindMetric(plan.metric_id, evidence)[1])
          /\ stage' = "compile"
          /\ pc' = "compile"
          /\ UNCHANGED outcome
  /\ UNCHANGED << other, store, hits, settings, kb, request, evidence, plan, plan_initial, initial_shared,
                  validation_errors, sql, trace >>

\* run_query line 85: compiler.compile(plan_result.plan, plan_result.evidence)
Compile ==
  /\ pc = "compile"
  /\ LET r == compile(plan_result.plan, plan_result.evidence)
     IN  /\ sql' = r
         /\ trace' = [trace EXCEPT !.compile_calls =
                        Append(@, [plan |-> plan_result.plan, evidence |-> plan_result.evidence])]
         /\ IF r.ok
            THEN /\ stage' = "execute"
                 /\ pc' = "execute"
                 /\ UNCHANGED outcome
            ELSE /\ Raise(stage, r.error, << >>)
                 /\ UNCHANGED stage
  /\ UNCHANGED << other, store, hits, settings, kb, request, evidence, plan, plan_initial, initial_shared,
                  validation_errors, plan_result >>

\* run_query after compile: the executor and the answer builder, which may fail
Execute ==
  /\ pc = "execute"
  /\ \E result \in {"ok", "execute", "answer"} :
       IF result = "ok"
       THEN /\ pc' = "done"
            /\ stage' = "answer"
            /\ outcome' = [status |-> "ok", stage |-> "answer", error |-> "", messages |-> << >>]
       ELSE /\ stage' = result
            /\ Raise(result, "collaborator failed", << >>)
  /\ UNCHANGED << other, store, hits, settings, kb, request, evidence, plan, plan_initial, initial_shared,
                  validation_errors, plan_result, sql, trace >>

Next ==
  \/ Retrieve
  \/ BuildFixedPlan
  \/ CallLlm
  \/ CallLlmTrimmed
  \/ ValidatePass1
  \/ RepairRetrieve
  \/ repair
  \/ ValidatePass2
  \/ Finish
  \/ Compile
  \/ Execute

Spec == Init /\ [][Next]_vars

----------------------------------------------------------------------------
(* PlanValidator.validate and SqlCompiler.compile called directly, as the   *)
(* tests do, on plans and bundles drawn from bounded sets                  *)

\* longest dimensions / filters list of a drawn plan
MaxListLen == 1

SeqsUpTo(S, n) == UNION { [1..k -> S] : k \in 0..n }

Filter(table, field, op, value) == [table |-> table, field |-> field, op |-> op, value |-> value]

Scalar(v) == [is_list |-> FALSE, items |-> << v >>]

SortSpec(by, order) == [by |-> by, order |-> order]

S_tr_ts == SchemaEntity("transformer", "ts", {}, "datetime")

\* the template of scenario S1
T_trend_S1 == TemplateRule("trend_template", "trend", << "sum" >>, << >>, << "time_range" >>)

M_load_rate_S1 ==
  MetricDef("load_rate", "Load rate", << Key("feeder", "load_kw"), Key("feeder", "capacity_kw") >>, "day")

S1Evidence == EvidenceBundle(<< M_load_rate_S1 >>, << S_feeder_id >>, << >>, << T_trend_S1 >>)

S1Plan ==
  PlanMap("trend", "load_rate", << Key("feeder", "bad_field") >>, DefaultRange, "day", << >>,
          "NONE", << >>, 10, OutputSpec("table", "line"), "0.5", << >>)

\* a metric without required fields
M_no_fields == MetricDef("no_field_metric", "No fields", << >>, "day")

UnitEvidences ==
  { EvidenceBundle(<< M_load_rate, M_outage_count >>,
                   << S_feeder_ts, S_feeder_id, S_outage_cnt, S_tr_feeder_id >>,
                   << J_feeder_transformer >>, << T_trend >>),
    EvidenceBundle(<< M_load_rate >>, << S_feeder_id, S_feeder_ts >>, << >>, << >>),
    EvidenceBundle(<< M_load_rate, M_outage_count >>, << S_feeder_ts >>,
                   << J_feeder_transformer >>, << >>),
    EvidenceBundle(<< M_load_rate >>, << S_tr_ts, S_feeder_ts, S_feeder_id >>,
                   << J_feeder_transformer >>, << >>),
    EvidenceBundle(<< M_no_fields, M_outage_count >>, << S_tr_ts, S_outage_cnt >>,
                   << >>, << T_trend >>),
    S1Evidence }

\* a metric whose required field is named like a time column
M_reading_time == MetricDef("reading_time", "Reading time", << Key("feeder", "timestamp") >>, "day")

\* bundles for plans without dimensions, filters and join path: one with an
\* aggregate rule that allows no function, one without a time-typed schema row
PlainEvidences ==
  { EvidenceBundle(<< M_load_rate, M_outage_count >>,
                   << S_feeder_ts, S_load_kw, S_capacity_kw >>, << >>, << T_aggregate >>),
    EvidenceBundle(<< M_load_rate, M_reading_time >>, << S_feeder_id, S_load_kw >>,
                   << >>, << >>) }

DimensionPool ==
  { Key("feeder", "feeder_id"), Key("feeder", "bad_field"), Key("transformer", "feeder_id") }

FilterPool ==
  { Filter("feeder", "feeder_id", "=", Scalar("F1")),
    Filter("transformer", "bad_field", "=", Scalar("F1")),
    Filter("feeder", "load_kw", "between", Scalar("F1")) }

SortPool ==
  { << >>, << SortSpec(Key("", "metric"), "desc") >>, << SortSpec(Key("", "time"), "asc") >>,
    << SortSpec(Key("feeder", "bad_field"), "asc") >>,
    << SortSpec(Key("", "feeder_id"), "asc") >>, << SortSpec(Key("", "nope"), "asc") >> }

\* plans the Plan DSL schema rejects: the one of test_schema_validation, and a
\* complete plan with a time_grain outside the enum, an unknown metric and an
\* unknown join path
SchemaInvalidPlans ==
  { SchemaInvalid,
    PlanMap("trend", "UNKNOWN", << Key("feeder", "bad_field") >>, DefaultRange, "year", << >>,
            "ghost_path", << >>, 10, OutputSpec("table", "none"), "0.5", << >>) }

\* plans without dimensions, filters and join path, with and without a limit, of
\* every time grain
PlainPlans ==
  { PlanMap(i, m, << >>, DefaultRange, g, << >>, "NONE", s, l, OutputSpec("table", "none"), "0.5", << >>) :
      i \in {"trend", "aggregate"}, m \in {"load_rate", "outage_count", "no_field_metric"},
      s \in {<< >>, << SortSpec(Key("", "metric"), "desc") >>}, l \in {0, 10}, g \in Grains }

UnitPlans ==
  { PlanMap(i, m, d, DefaultRange, "day", f, j, s, 10, OutputSpec("table", "none"), "0.5", << >>) :
      i \in {"trend", "aggregate"}, m \in {"load_rate", "outage_count", "UNKNOWN"},
      d \in SeqsUpTo(DimensionPool, MaxListLen), f \in SeqsUpTo(FilterPool, MaxListLen),
      j \in {"NONE", "feeder_transformer", "ghost_path"}, s \in SortPool }
  \cup {S1Plan}
  \cup SchemaInvalidPlans
  \cup PlainPlans

UnitInit ==
  /\ settings = Settings("mock", TRUE, "")
  /\ kb = KB_A
  /\ request = [question |-> {}, time_range |-> << >>]
  /\ pc = "unit"
  /\ stage = "init"
  /\ \/ evidence \in UnitEvidences /\ plan \in UnitPlans
     \/ evidence \in PlainEvidences /\ plan \in PlainPlans
  /\ plan_initial = NoPlan
  /\ initial_shared = FALSE
  /\ validation_errors = << >>
  /\ plan_result = NoResult
  /\ sql = CompileError("", Key("", ""))
  /\ outcome = Running
  /\ trace = NoTrace
  /\ store = << >>
  /\ hits = NoHits
  /\ other = NoOther

\* validator.validate(plan, evidence)
UnitValidate ==
  /\ pc = "unit"
  /\ validation_errors' = validate(plan, evidence)
  /\ trace' = [trace EXCEPT !.validate_calls = @ + 1,
                 !.validated = << [plan |-> plan, evidence |-> evidence,
                                   errors |-> validate(plan, evidence)] >>,
                 !.passes = Append(@, validate(plan, evidence))]
  /\ pc' = "unit_validated"
  /\ UNCHANGED << other, store, hits, settings, kb, request, stage, evidence, plan, plan_initial, initial_shared,
                  plan_result, sql, outcome >>

\* compiler.compile(PlanDSL(**plan), evidence), whatever the validator said
UnitCompile ==
  /\ pc = "unit_validated"
  /\ PydanticAccepts(plan)
  /\ sql' = compile(plan, evidence)
  /\ trace' = [trace EXCEPT !.compile_calls = Append(@, [plan |-> plan, evidence |-> evidence])]
  /\ pc' = "unit_compiled"
  /\ UNCHANGED << other, store, hits, settings, kb, request, stage, evidence, plan, plan_initial, initial_shared,
                  validation_errors, plan_result, outcome >>

\* a second validator.validate(plan, evidence) on the same plan and bundle
UnitValidateAgain ==
  /\ pc = "unit_validated"
  /\ validation_errors' = validate(plan, evidence)
  /\ trace' = [trace EXCEPT !.validate_calls = @ + 1,
                 !.passes = Append(@, validate(plan, evidence))]
  /\ pc' = "unit_revalidated"
  /\ UNCHANGED << other, store, hits, settings, kb, request, stage, evidence, plan, plan_initial, initial_shared,
                  plan_result, sql, outcome >>

UnitNext ==
  \/ UnitValidate
  \/ UnitValidateAgain
  \/ UnitCompile

SpecUnit == UnitInit /\ [][UnitNext]_vars

----------------------------------------------------------------------------
(* engine.py: two run_query calls on one engine, interleaved *)

\* locals kept across a switch, with the bundle left behind
Locals_WithoutEvidence ==
  [request |-> request, pc |-> pc, stage |-> stage, evidence |-> EmptyBundle, plan |-> plan,
   plan_initial |-> plan_initial, initial_shared |-> initial_shared,
   validation_errors |-> validation_errors, plan_result |-> plan_result, sql |-> sql,
   outcome |-> outcome, trace |-> trace]

\* the locals of the running run_query / generate_plan call
Locals ==
  [request |-> request, pc |-> pc, stage |-> stage, evidence |-> evidence, plan |-> plan,
   plan_initial |-> plan_initial, initial_shared |-> initial_shared,
   validation_errors |-> validation_errors, plan_result |-> plan_result, sql |-> sql,
   outcome |-> outcome, trace |-> trace]

\* the locals of a call that has not started
StartLocals(req) ==
  [request |-> req, pc |-> "start", stage |-> "init", evidence |-> EmptyBundle, plan |-> NoPlan,
   plan_initial |-> NoPlan, initial_shared |-> FALSE, validation_errors |-> << >>,
   plan_result |-> NoResult, sql |-> CompileError("", Key("", "")), outcome |-> Running,
   trace |-> NoTrace]

PairInit ==
  /\ settings \in { Settings("mock", TRUE, ""), Settings("no_llm", TRUE, "") }
  /\ kb \in KnowledgeBases
  /\ request \in Requests
  /\ pc = "start"
  /\ stage = "init"
  /\ evidence = EmptyBundle
  /\ plan = NoPlan
  /\ plan_initial = NoPlan
  /\ initial_shared = FALSE
  /\ validation_errors = << >>
  /\ plan_result = NoResult
  /\ sql = CompileError("", Key("", ""))
  /\ outcome = Running
  /\ trace = NoTrace
  /\ store = << >>
  /\ hits = NoHits
  /\ other \in { StartLocals(req) : req \in Requests }

\* the scheduler gives the processor to the other call
Switch ==
  /\ other # NoOther
  /\ other' = Locals
  /\ request' = other.request
  /\ pc' = other.pc
  /\ stage' = other.stage
  /\ evidence' = other.evidence
  /\ plan' = other.plan
  /\ plan_initial' = other.plan_initial
  /\ initial_shared' = other.initial_shared
  /\ validation_errors' = other.validation_errors
  /\ plan_result' = other.plan_result
  /\ sql' = other.sql
  /\ outcome' = other.outcome
  /\ trace' = other.trace
  /\ UNCHANGED << settings, kb, store, hits >>

PairNext ==
  \/ Retrieve
  \/ BuildFixedPlan
  \/ CallLlm
  \/ ValidatePass1
  \/ RepairRetrieve
  \/ repair
  \/ ValidatePass2
  \/ Finish
  \/ Compile
  \/ Execute
  \/ Switch

SpecPair == PairInit /\ [][PairNext]_vars

----------------------------------------------------------------------------
(* rag/faiss_store.py: a SimpleInMemoryVectorStore driven directly *)

MaxDocs == 2

DocIds == {"d1", "d2", "d3"}

\* document texts by their words: nine, four, one word, and one foreign to the rest
DocTexts ==
  { {"feeder", "ts", "datetime", "t1", "t2", "t3", "t4", "t5", "t6"},
    {"feeder", "ts", "x1", "x2"},
    {"feeder"},
    {"zone"} }

DocMetadata == { [kind |-> "schema"], [kind |-> "metric"] }

QueryTexts == { {}, {"feeder", "ts", "datetime"}, {"feeder"}, {"zone", "load_kw"} }

QueryFilters == { << >>, [kind |-> "schema"] }

StoreInit ==
  /\ settings = Settings("mock", TRUE, "")
  /\ kb = KB_A
  /\ request = [question |-> {}, time_range |-> << >>]
  /\ pc = "store"
  /\ stage = "init"
  /\ evidence = EmptyBundle
  /\ plan = NoPlan
  /\ plan_initial = NoPlan
  /\ initial_shared = FALSE
  /\ validation_errors = << >>
  /\ plan_result = NoResult
  /\ sql = CompileError("", Key("", ""))
  /\ outcome = Running
  /\ trace = NoTrace
  /\ store = << >>
  /\ hits = NoHits
  /\ other = NoOther

Document(doc_id, text, metadata) ==
  [doc_id |-> doc_id, item |-> doc_id, tokens |-> text, metadata |-> metadata]

\* upsert: a known doc_id keeps its place in the dicts, a new one goes last
Store_upsert ==
  /\ pc = "store"
  /\ \E doc_id \in DocIds, text \in DocTexts, metadata \in DocMetadata :
       LET at == { i \in 1..Len(store) : store[i].doc_id = doc_id }
       IN  IF at # {}
           THEN store' = [i \in 1..Len(store) |->
                            IF i \in at THEN Document(doc_id, text, metadata) ELSE store[i]]
           ELSE /\ Len(store) < MaxDocs
                /\ store' = Append(store, Document(doc_id, text, metadata))
  /\ UNCHANGED << other, hits, settings, kb, request, pc, stage, evidence, plan, plan_initial,
                  initial_shared, validation_errors, plan_result, sql, outcome, trace >>

\* query(text, top_k, filter), once the store is built
Store_query ==
  /\ pc = "store"
  /\ \E text \in QueryTexts, top_k \in {1, 2}, filter \in QueryFilters :
       LET found == StoreHits(store, text, top_k, filter)
       IN  hits' = [asked |-> TRUE, text |-> text, top_k |-> top_k, filter |-> filter,
                    docs |-> store, index |-> found,
                    result |-> [k \in 1..Len(found) |-> store[found[k]].doc_id]]
  /\ pc' = "store_asked"
  /\ UNCHANGED << other, store, settings, kb, request, stage, evidence, plan, plan_initial,
                  initial_shared, validation_errors, plan_result, sql, outcome, trace >>

StoreNext ==
  \/ Store_upsert
  \/ Store_query

SpecStore == StoreInit /\ [][StoreNext]_vars

----------------------------------------------------------------------------
(* Properties *)

PlanningCalls ==
  SelectSeq(trace.llm_calls, LAMBDA c : c.marker \in {"<INPUTS>", "<INPUTS_TRIMMED>"})

RepairCalls == SelectSeq(trace.llm_calls, LAMBDA c : c.marker = "repair")

SecondRetrievals == SelectSeq(trace.retrievals, LAMBDA k : k = rag_top_k_second)

\* C1: in every mode, a plan handed to SqlCompiler.compile has been run through
\* PlanValidator.validate against the bundle handed over with it, and that last
\* validation pass returned no error
C1_CompiledPlanWasValidated ==
  \A i \in 1..Len(trace.compile_calls) :
    /\ trace.validated # << >>
    /\ trace.validated[1].plan = trace.compile_calls[i].plan
    /\ trace.validated[1].evidence = trace.compile_calls[i].evidence
    /\ trace.validated[1].errors = << >>

\* C1, the failing case: a no_llm request whose fallback plan the validator
\* would reject is compiled to SQL without any validation pass
C1_UnvalidatedPlanCompiled ==
  /\ settings.llm_mode = "no_llm"
  /\ trace.compile_calls # << >>
  /\ trace.validate_calls = 0
  /\ validate(trace.compile_calls[1].plan, trace.compile_calls[1].evidence) # << >>
  /\ sql.ok

\* C2: generate_plan is fail-closed.  Errors left by the last validation pass make
\* it raise "Plan validation failed" carrying the message of every remaining error
\* and return nothing; a returned PlanResult has an empty validation_errors list
C2_FailClosed ==
  /\ plan_result.returned => plan_result.validation_errors = << >>
  /\ (pc = "final" /\ trace.passes # << >>) =>
       validation_errors = trace.passes[Len(trace.passes)]
  /\ (pc \in {"compile", "execute", "done"}) =>
       (plan_result.returned /\ validation_errors = << >>)
  /\ (pc = "failed" /\ validation_errors # << >>) =>
       /\ ~plan_result.returned
       /\ \/ /\ outcome.error = "Plan validation failed"
             /\ outcome.stage = "plan"
             /\ \A i \in 1..Len(validation_errors) :
                  \E j \in 1..Len(outcome.messages) :
                    outcome.messages[j] = validation_errors[i].message
             /\ Len(outcome.messages) = Len(validation_errors)
          \/ /\ Len(trace.passes) = 1
             /\ RepairCalls # << >>
             /\ ~isinstance_dict(RepairCalls[1].response)

\* C2, the case: a request fails after the repair round with two errors left
C2_TwoErrorsSurfaced ==
  /\ pc = "failed"
  /\ outcome.error = "Plan validation failed"
  /\ Len(trace.passes) = 2
  /\ Len(outcome.messages) >= 2
  /\ outcome.messages[1] # outcome.messages[2]

\* C3: PlanRepair.repair and the retrieval with rag_top_k_second each run at most
\* once per request, only after a validation pass returned errors, never when
\* pass 1 accepted the plan; a repair call that raises ends the request, without
\* a second repair call
C3_RepairAtMostOnce ==
  /\ Len(RepairCalls) <= 1
  /\ Len(SecondRetrievals) <= 1
  /\ (RepairCalls # << >> \/ SecondRetrievals # << >>) =>
       /\ trace.passes # << >>
       /\ trace.passes[1] # << >>
       /\ trace.retrievals = << rag_top_k, rag_top_k_second >>
  /\ (trace.passes # << >> /\ trace.passes[1] = << >>) =>
       (RepairCalls = << >> /\ SecondRetrievals = << >>)
  /\ (RepairCalls # << >> /\ RepairCalls[1].response.kind = "raise") =>
       /\ pc = "failed"
       /\ outcome.stage = "plan"
       /\ Len(trace.llm_calls) = Len(PlanningCalls) + 1
       /\ Len(trace.passes) = 1

\* C3, the case: the repair call timed out and the request failed after one
\* repair call and one wider retrieval
C3_RepairTimedOut ==
  /\ pc = "failed"
  /\ Len(RepairCalls) = 1
  /\ RepairCalls[1].response.kind = "raise"
  /\ _is_timeout_error(RepairCalls[1].response.text)
  /\ Len(SecondRetrievals) = 1

\* an error message that contains "timeout" or "timed out"
SaysTimeout(text) ==
  \/ \E i \in 1..Len(text) : text[i] = "timeout"
  \/ \E i \in 1..(Len(text) - 1) : text[i] = "timed" /\ text[i + 1] = "out"

\* the first k elements of every list of a bundle
FirstOfEach(ev, k) ==
  [f \in DOMAIN ev |-> [i \in 1..(IF Len(ev[f]) < k THEN Len(ev[f]) ELSE k) |-> ev[f][i]]]

\* what C4 says of the planning calls, with `retries` telling whether a timeout is retried
PlanningCallsFollow(retries) ==
  /\ Len(PlanningCalls) <= 2
  /\ PlanningCalls # << >> =>
       LET first == PlanningCalls[1]
       IN  /\ first.marker = "<INPUTS>"
           /\ (first.response.kind = "raise" /\ SaysTimeout(first.response.text) /\ retries) =>
                \/ pc = "retry" /\ Len(PlanningCalls) = 1
                \/ /\ Len(PlanningCalls) = 2
                   /\ PlanningCalls[2].marker = "<INPUTS_TRIMMED>"
                   /\ PlanningCalls[2].evidence = FirstOfEach(first.evidence, llm_plan_trim_top_k)
           /\ (first.response.kind = "raise"
               /\ ~(SaysTimeout(first.response.text) /\ retries)) =>
                /\ Len(trace.llm_calls) = 1
                /\ pc = "failed"
                /\ outcome.error = "LLM plan generation failed"
                /\ outcome.stage = "plan"
           /\ first.response.kind # "raise" => Len(PlanningCalls) = 1
  /\ (Len(PlanningCalls) = 2 /\ PlanningCalls[2].response.kind = "raise") =>
       /\ Len(trace.llm_calls) = 2
       /\ pc = "failed"
       /\ outcome.error = "LLM plan generation failed (timeout, trimmed retry failed)"
       /\ outcome.stage = "plan"

HasKeywordWord(text) ==
  \/ \E i \in 1..Len(text) :
       Lower(text[i]) \in {"select", "from", "where", "join", "insert", "update", "delete"}
  \/ \E i \in 1..(Len(text) - 1) :
       Lower(text[i]) \in {"group", "order"} /\ Lower(text[i + 1]) = "by"

SerializedHasKeyword(p) == IsDict(p) /\ \E t \in PlanTexts(p) : HasKeywordWord(t)

\* C5: a plan whose serialized JSON contains a SQL keyword, in any field and any
\* letter case, is never returned by generate_plan and never reaches
\* SqlCompiler.compile; the request fails at the plan stage instead
C5_KeywordPlanNeverCompiled ==
  /\ plan_result.returned => ~SerializedHasKeyword(plan_result.plan)
  /\ \A i \in 1..Len(trace.compile_calls) : ~SerializedHasKeyword(trace.compile_calls[i].plan)
  /\ (pc \in {"compile", "execute", "done"}) => ~SerializedHasKeyword(plan)
  /\ (pc = "failed" /\ validation_errors = << >> /\ "metric_id" \in DOMAIN plan
      /\ SerializedHasKeyword(plan)) =>
       /\ outcome.error = "LLM output contains SQL keywords"
       /\ outcome.stage = "plan"
       /\ trace.compile_calls = << >>

\* C5, the case: a plan that passed validation is refused for an upper-case keyword
C5_ValidPlanRefused ==
  /\ pc = "failed"
  /\ outcome.error = "LLM output contains SQL keywords"
  /\ trace.validated # << >>
  /\ trace.validated[1].errors = << >>
  /\ plan = UppercaseKeywordNote
  /\ trace.compile_calls = << >>

\* the plans the LLM handed back in this request
LlmPlansOfRequest ==
  { trace.llm_calls[i].response.plan :
      i \in { j \in 1..Len(trace.llm_calls) : trace.llm_calls[j].response.kind = "dict" } }

\* C6: the keyword scan is applied once, to the plan left after validation, metric
\* auto-fix and repair: a request fails with "LLM output contains SQL keywords"
\* after validation exactly when that final plan contains a keyword, so a keyword
\* in an initial plan that was repaired away or overwritten does not fail the request
C6_ScanOfFinalPlanOnly ==
  /\ (pc = "failed" /\ outcome.error = "LLM output contains SQL keywords"
      /\ trace.validated # << >>) =>
       (SerializedHasKeyword(plan) /\ validation_errors = << >>)
  /\ (pc \in {"compile", "execute", "done"}) => ~SerializedHasKeyword(plan)
  /\ (pc = "failed" /\ outcome.error = "Plan validation failed") => validation_errors # << >>

\* C6 as stated: a request in which the LLM produced a plan containing a keyword
\* never gets past generate_plan
C6_EveryLlmPlanScanned ==
  (pc \in {"compile", "execute", "done"}) =>
    \A p \in LlmPlansOfRequest : ~SerializedHasKeyword(p)

\* C6, the case: the initial plan carried a keyword, the repaired plan did not,
\* and the request was planned successfully
C6_KeywordRepairedAway ==
  /\ pc = "compile"
  /\ Len(RepairCalls) = 1
  /\ SerializedHasKeyword(PlanningCalls[1].response.plan)
  /\ ~SerializedHasKeyword(plan)

NonObject(resp) == resp.kind \in {"str", "list"}

\* C7: when a planning call hands back a value that is not a JSON object, the
\* request fails at stage "plan" with "LLM output is not JSON" or "LLM output
\* contains SQL keywords", and validator, repair driver and compiler are not invoked
C7_NonObjectRefused ==
  \A i \in 1..Len(PlanningCalls) :
    NonObject(PlanningCalls[i].response) =>
      /\ pc = "failed"
      /\ outcome.status = "error"
      /\ outcome.stage = "plan"
      /\ outcome.error \in {"LLM output is not JSON", "LLM output contains SQL keywords"}
      /\ trace.validate_calls = 0
      /\ RepairCalls = << >>
      /\ trace.compile_calls = << >>
      /\ i = Len(trace.llm_calls)

\* C7, the case: the trimmed retry handed back the string SELECT x FROM t
C7_StringFromRetry ==
  /\ Len(PlanningCalls) = 2
  /\ PlanningCalls[2].response = ReturnedText(<< "SELECT", "x", "FROM", "t" >>)
  /\ outcome.error = "LLM output contains SQL keywords"

\* the table.field columns a compiled query refers to
QueryColumns(q) ==
  UNION { Range(q.select[i].cols) : i \in 1..Len(q.select) }
  \cup { q.group_by[i] : i \in { j \in 1..Len(q.group_by) : q.group_by[j].table # "" } }
  \cup UNION { {q.joins[i].left, q.joins[i].right} : i \in 1..Len(q.joins) }
  \cup { q.where[i].col : i \in 1..Len(q.where) }
  \cup { q.order_by[i].col : i \in { j \in 1..Len(q.order_by) : q.order_by[j].col.table # "" } }

\* schema candidates, the chosen metric's required fields, the chosen join path's edge fields
AllowList(p, ev) ==
  { KeyOf(x) : x \in Range(ev.schema_candidates) }
  \cup UNION { { f \in Range(m.required_fields) : f.table # "" } :
               m \in { ev.metric_candidates[i] :
                         i \in { j \in 1..Len(ev.metric_candidates) :
                                   /\ ev.metric_candidates[j].metric_id = p.metric_id
                                   /\ \A k \in 1..(j - 1) :
                                        ev.metric_candidates[k].metric_id # p.metric_id } } }
  \cup UNION { UNION { { Key(e.left_table, e.left_field), Key(e.right_table, e.right_field) } :
                       e \in Range(jp.edges) } :
               jp \in { x \in Range(ev.join_paths) : x.join_path_id = p.join_path_id } }

OutsideAllowList(p, ev) ==
  \/ \E i \in 1..Len(p.dimensions) : KeyOf(p.dimensions[i]) \notin AllowList(p, ev)
  \/ \E i \in 1..Len(p.filters) : KeyOf(p.filters[i]) \notin AllowList(p, ev)
  \/ \E i \in 1..Len(p.sort) : p.sort[i].by.table # "" /\ p.sort[i].by \notin AllowList(p, ev)

\* C8: evidence containment.  When compile returns SQL, every table.field column
\* of its select list, GROUP BY, join conditions, WHERE and ORDER BY is in the
\* allow-list of the bundle; a plan with a dimension, filter or qualified sort
\* field outside the allow-list is rejected
C8_EvidenceContainment ==
  pc = "unit_compiled" =>
    /\ sql.ok => QueryColumns(sql.sql) \subseteq AllowList(plan, evidence)
    /\ OutsideAllowList(plan, evidence) => ~sql.ok

\* C8, the case: SQL was emitted for a plan with a dimension, a filter and a join
\* whose columns come from schema rows, metric fields and join edges
C8_JoinedQueryEmitted ==
  /\ pc = "unit_compiled"
  /\ sql.ok
  /\ plan.dimensions # << >>
  /\ plan.filters # << >>
  /\ sql.sql.joins # << >>
  /\ \E c \in QueryColumns(sql.sql) : c \notin { KeyOf(x) : x \in Range(evidence.schema_candidates) }

ReferencedTables(p, ev) ==
  LET metric_tables ==
        UNION { { f.table : f \in Range(m.required_fields) } \ {""} :
                m \in { x \in Range(ev.metric_candidates) : x.metric_id = p.metric_id } }
      time_table == _pick_time_table(ev, metric_tables)
  IN  ({ d.table : d \in Range(p.dimensions) } \cup { f.table : f \in Range(p.filters) }
       \cup metric_tables \cup {time_table}) \ {""}

\* C10: join reachability.  For a plan the validator accepts, a join_path_id other
\* than "NONE" names an evidence join path whose tables contain every referenced
\* table, and with "NONE" at most one table is referenced
C10_JoinReachability ==
  (pc \in {"unit_validated", "unit_compiled"} /\ validation_errors = << >>) =>
    IF plan.join_path_id = "NONE"
    THEN Cardinality(ReferencedTables(plan, evidence)) <= 1
    ELSE \E i \in 1..Len(evidence.join_paths) :
           /\ evidence.join_paths[i].join_path_id = plan.join_path_id
           /\ \A j \in 1..(i - 1) : evidence.join_paths[j].join_path_id # plan.join_path_id
           /\ ReferencedTables(plan, evidence) \subseteq Range(evidence.join_paths[i].tables)

\* C10, the case: an accepted plan that refers to two tables through a join path
C10_AcceptedJoinedPlan ==
  /\ pc = "unit_validated"
  /\ validation_errors = << >>
  /\ plan.join_path_id = "feeder_transformer"
  /\ Cardinality(ReferencedTables(plan, evidence)) = 2

C12_EvidenceOfAcceptingPass ==
  /\ (trace.validated # << >> /\ trace.validated[1].errors = << >>) =>
       /\ evidence = trace.validated[1].evidence
       /\ Len(trace.retrievals) = Len(trace.passes)
  /\ (plan_result.returned /\ trace.validated # << >>) =>
       /\ trace.validated[1].errors = << >>
       /\ plan_result.evidence = trace.validated[1].evidence
       /\ plan_result.plan = trace.validated[1].plan
  /\ \A i \in 1..Len(trace.compile_calls) :
       /\ plan_result.returned
       /\ trace.compile_calls[i].evidence = plan_result.evidence
       /\ trace.compile_calls[i].plan = plan_result.plan

\* C12, the case: a plan accepted by pass 2 was compiled against the bundle of
\* the wider retrieval
C12_CompiledAfterRepair ==
  /\ Len(trace.passes) = 2
  /\ trace.passes[2] = << >>
  /\ trace.retrievals = << rag_top_k, rag_top_k_second >>
  /\ trace.compile_calls # << >>
  /\ trace.compile_calls[1].evidence = trace.validated[1].evidence
  /\ sql.ok

\* the plan as the LLM adapter or the no_llm builder produced it
OriginalPlan ==
  IF PlanningCalls # << >>
  THEN PlanningCalls[Len(PlanningCalls)].response.plan
  ELSE _build_fixed_plan(evidence, request.time_range, kb, settings.fixed_metric_id).plan

\* C13: the plan_initial of a returned PlanResult is the plan exactly as the LLM
\* adapter (or the no_llm builder) produced it: neither the metric auto-fix nor
\* the repair round alters it
C13_PlanInitialIsOriginal ==
  plan_result.returned => plan_result.plan_initial = OriginalPlan

\* C13, the failing case: pass 1 rewrote metric_id in the plan the LLM returned and
\* the returned plan_initial carries the rewritten id
C13_InitialPlanPatched ==
  /\ plan_result.returned
  /\ PlanningCalls # << >>
  /\ Len(trace.passes) = 1
  /\ plan_result.plan_initial.metric_id # OriginalPlan.metric_id
  /\ plan_result.plan_initial = plan_result.plan

\* what the code keeps of C13: plan_initial differs from the original plan in
\* metric_id at most
C13_OnlyMetricIdPatched ==
  plan_result.returned =>
    [plan_result.plan_initial EXCEPT !.metric_id = OriginalPlan.metric_id] = OriginalPlan

\* C14: a compile never drops a sort silently.  For every plan with a sort,
\* compile fails or the query has an ORDER BY in the direction the sort asks for;
\* a sort by "time" or "time_bucket" on a plan whose intent is not trend is not
\* accepted
C14_SortNeverDropped ==
  (pc = "unit_compiled" /\ plan.sort # << >>) =>
    \/ ~sql.ok
    \/ /\ Len(sql.sql.order_by) = 1
       /\ sql.sql.order_by[1].desc = (plan.sort[1].order = "desc")
       /\ (plan.sort[1].by.field \in {"time", "time_bucket"} /\ ~HasDot(plan.sort[1].by)) =>
            plan.intent = "trend"

\* C14, the failing case: an aggregate plan sorted by time compiles to a query
\* without ORDER BY
C14_TimeSortDropped ==
  /\ pc = "unit_compiled"
  /\ plan.intent = "aggregate"
  /\ plan.sort # << >>
  /\ plan.sort[1].by = Key("", "time")
  /\ validation_errors = << >>
  /\ sql.ok
  /\ sql.sql.order_by = << >>

\* what the code keeps of C14: every other sort is ordered by or refused
C14_OtherSortsKept ==
  (pc = "unit_compiled" /\ plan.sort # << >> /\ sql.ok /\ sql.sql.order_by = << >>) =>
    /\ plan.intent # "trend"
    /\ plan.sort[1].by \in {Key("", "time"), Key("", "time_bucket")}

\* a no_llm request with start and end given, after the fallback builder has run
\* on a bundle with a metric candidate
NoLlmFeasible ==
  /\ settings.llm_mode = "no_llm"
  /\ pc \notin {"start", "acquire"}
  /\ request.time_range # << >>
  /\ request.time_range[1].start # ""
  /\ request.time_range[1].end # ""
  /\ evidence.metric_candidates # << >>

\* the metric the fallback plan is for: the configured id, else the top candidate
FixedPlanMetricId ==
  IF settings.fixed_metric_id # "" THEN settings.fixed_metric_id
  ELSE evidence.metric_candidates[1].metric_id

\* the tables of that metric's required fields plus the time table
FixedPlanTables ==
  LET defs == FindMetric(FixedPlanMetricId, evidence)
                \o SelectSeq(kb.metric, LAMBDA m : m.metric_id = FixedPlanMetricId)
      time_table == Planner_pick_time_table(evidence)
  IN  (IF defs = << >> THEN {} ELSE MetricTables(defs[1]))
        \cup (IF time_table = "" THEN {} ELSE {time_table})

\* the evidence join paths whose tables cover FixedPlanTables, in bundle order
CoveringJoinPaths ==
  SelectSeq(evidence.join_paths, LAMBDA jp : FixedPlanTables \subseteq Range(jp.tables))

NoLlmInfeasibleMessages ==
  { "no_llm mode requires time_range", "no_llm mode requires metric candidates",
    "no_llm mode fixed_metric_id not found",
    "no_llm mode cannot find join_path for required tables" }

\* the plan C15 describes
FixedPlanShape(p) ==
  /\ p.intent = "aggregate"
  /\ p.metric_id = FixedPlanMetricId
  /\ p.dimensions = << >>
  /\ p.filters = << >>
  /\ p.limit = 200
  /\ p.confidence = "0.1"
  /\ p.output = OutputSpec("single_value", "none")
  /\ p.time_range = request.time_range[1]
  /\ p.join_path_id = IF Cardinality(FixedPlanTables) > 1
                       THEN CoveringJoinPaths[1].join_path_id ELSE "NONE"

\* C15: in no_llm mode, with start and end given and a metric candidate at hand,
\* generate_plan returns the aggregate fallback plan for the configured metric id
\* (else the top candidate) with the first covering join path, or "NONE" when one
\* table is enough; it fails only with a no_llm error and only when more than one
\* table is needed and no join path covers them
C15_FixedPlanOrNoJoinPath ==
  NoLlmFeasible =>
    /\ (pc = "failed" /\ outcome.stage = "plan") =>
         /\ outcome.error \in NoLlmInfeasibleMessages
         /\ Cardinality(FixedPlanTables) > 1
         /\ CoveringJoinPaths = << >>
    /\ plan_result.returned =>
         /\ Cardinality(FixedPlanTables) > 1 => CoveringJoinPaths # << >>
         /\ FixedPlanShape(plan_result.plan)

\* C15, the failing case: the configured metric is in the knowledge base but not
\* among the candidates, the builder plans for it, and generate_plan then fails
\* looking it up in the bundle
C15_FixedMetricLostInBundle ==
  /\ NoLlmFeasible
  /\ settings.fixed_metric_id # ""
  /\ pc = "failed"
  /\ outcome.stage = "plan"
  /\ outcome.error = "metric_id not found in evidence"
  /\ FixedPlanShape(plan)

\* C15, a second failing case: the configured metric id is unknown
C15_FixedMetricUnknown ==
  /\ NoLlmFeasible
  /\ pc = "failed"
  /\ outcome.error = "no_llm mode fixed_metric_id not found"

\* C15, the positive case: a fallback plan with a covering join path is returned
C15_FixedPlanWithJoinPath ==
  /\ NoLlmFeasible
  /\ plan_result.returned
  /\ plan_result.plan.join_path_id # "NONE"

\* what the code keeps of C15: a returned plan is the one described, and the
\* planning stage fails for a missing join path, for a configured id found
\* nowhere, or for a configured id found in the knowledge base only
C15_FixedPlanLaw ==
  NoLlmFeasible =>
    /\ plan_result.returned =>
         /\ Cardinality(FixedPlanTables) > 1 => CoveringJoinPaths # << >>
         /\ FixedPlanShape(plan_result.plan)
         /\ FindMetric(FixedPlanMetricId, evidence) # << >>
    /\ (pc = "failed" /\ outcome.stage = "plan") =>
         \/ /\ outcome.error = "no_llm mode cannot find join_path for required tables"
            /\ Cardinality(FixedPlanTables) > 1
            /\ CoveringJoinPaths = << >>
         \/ /\ outcome.error = "no_llm mode fixed_metric_id not found"
            /\ _pick_fixed_metric(evidence, kb, settings.fixed_metric_id) = << >>
         \/ /\ outcome.error = "metric_id not found in evidence"
            /\ FindMetric(FixedPlanMetricId, evidence) = << >>
            /\ _pick_fixed_metric(evidence, kb, settings.fixed_metric_id) # << >>

\* C16: scenario S6.  A no_llm request without a time_range, or with start or end
\* missing, fails with "no_llm mode requires time_range" right after the first
\* retrieval: no second retrieval, no LLM or repair call, no validation and no
\* compile take place
C16_NoLlmNeedsTimeRange ==
  (/\ settings.llm_mode = "no_llm"
   /\ \/ request.time_range = << >>
      \/ request.time_range[1].start = ""
      \/ request.time_range[1].end = ""
   /\ pc \notin {"start", "acquire"}) =>
    /\ pc = "failed"
    /\ outcome.status = "error"
    /\ outcome.stage = "plan"
    /\ outcome.error = "no_llm mode requires time_range"
    /\ trace.retrievals = << rag_top_k >>
    /\ trace.llm_calls = << >>
    /\ trace.validate_calls = 0
    /\ trace.compile_calls = << >>
    /\ ~plan_result.returned

\* C16, the case: a no_llm request whose time_range has no end has failed
C16_EndMissingFailed ==
  /\ settings.llm_mode = "no_llm"
  /\ request.time_range # << >>
  /\ request.time_range[1].end = ""
  /\ pc = "failed"
  /\ outcome.error = "no_llm mode requires time_range"

\* C17: a plan that violates the Plan DSL schema makes validate return a non-empty
\* list of errors that all have code "schema", one per violation; the semantic
\* checks contribute nothing for such a plan
C17_SchemaErrorsOnly ==
  (pc \in {"unit_validated", "unit_revalidated"} /\ PlanSchemaViolations(plan) # << >>) =>
    /\ validation_errors # << >>
    /\ Len(validation_errors) = Len(PlanSchemaViolations(plan))
    /\ \A i \in 1..Len(validation_errors) : validation_errors[i].code = "schema"

\* C17, the case: the plan {"version": "1.0"} was validated
C17_VersionOnlyPlanRejected ==
  /\ pc = "unit_validated"
  /\ plan = [version |-> "1.0"]
  /\ validation_errors # << >>
  /\ validation_errors[1].code = "schema"

\* C18: for every schema-valid plan whose join_path_id is neither "NONE" nor the
\* id of a join path of the bundle, validate returns a list with an error of code
\* join_path_not_found, whatever else is wrong with the plan
C18_UnknownJoinPathReported ==
  (/\ pc \in {"unit_validated", "unit_revalidated"}
   /\ PlanSchemaViolations(plan) = << >>
   /\ plan.join_path_id # "NONE"
   /\ \A i \in 1..Len(evidence.join_paths) :
        evidence.join_paths[i].join_path_id # plan.join_path_id) =>
    /\ \E i \in 1..Len(validation_errors) :
         /\ validation_errors[i].code = "join_path_not_found"
         /\ validation_errors[i].field_path = "join_path_id"
    /\ \A i \in 1..Len(validation_errors) :
         validation_errors[i].code # "join_unreachable"

\* C18, the case: a plan with an unknown join path, an unknown metric and a bad
\* dimension was validated against a bundle that has a join path
C18_GhostPathAmongOtherErrors ==
  /\ pc = "unit_validated"
  /\ PlanSchemaViolations(plan) = << >>
  /\ plan.join_path_id = "ghost_path"
  /\ evidence.join_paths # << >>
  /\ \E i \in 1..Len(validation_errors) : validation_errors[i].code = "join_path_not_found"
  /\ \E i \in 1..Len(validation_errors) : validation_errors[i].code = "metric_not_found"
  /\ \E i \in 1..Len(validation_errors) : validation_errors[i].code = "dimension_field_invalid"

\* the metric of the compiled plan, as the bundle defines it
CompiledMetric == FindMetric(plan.metric_id, evidence)[1]

\* the select expression compile emitted for the metric: the last one
MetricSelect == sql.sql.select[Len(sql.sql.select)]

\* C19: the metric formula law.  A compiled query computes the metric as
\* SUM(table.field) when the metric has exactly one required field and as
\* SUM(a) / NULLIF(SUM(b), 0) over its two fields when it has exactly two, under
\* the alias metric_id; a plan for a metric without required fields is rejected
C19_MetricFormulaLaw ==
  (pc = "unit_compiled" /\ FindMetric(plan.metric_id, evidence) # << >>) =>
    LET fields == CompiledMetric.required_fields
    IN  /\ fields = << >> => ~sql.ok
        /\ (sql.ok /\ Len(fields) = 1) =>
             /\ MetricSelect.kind = "SUM"
             /\ MetricSelect.text = "SUM({a})"
             /\ MetricSelect.cols = << fields[1] >>
             /\ MetricSelect.alias = plan.metric_id
        /\ (sql.ok /\ Len(fields) = 2) =>
             /\ MetricSelect.kind = "DIV"
             /\ MetricSelect.text = "SUM({a}) / NULLIF(SUM({b}), 0)"
             /\ MetricSelect.cols = << fields[1], fields[2] >>
             /\ MetricSelect.alias = plan.metric_id
        /\ (~sql.ok /\ sql.error = "metric required_fields empty") => fields = << >>

\* C19, the case: a plan for the metric without required fields was rejected by
\* the metric expression
C19_NoFieldMetricRejected ==
  /\ pc = "unit_compiled"
  /\ plan.metric_id = "no_field_metric"
  /\ ~sql.ok
  /\ sql.error = "metric required_fields empty"

\* C19, the case: a one-field metric compiled to a SUM
C19_OneFieldMetricCompiled ==
  /\ pc = "unit_compiled"
  /\ sql.ok
  /\ Len(CompiledMetric.required_fields) = 1
  /\ MetricSelect.kind = "SUM"

\* C20: a compiled trend query has the time-bucket expression as its first select
\* expression under the alias time_bucket and groups by time_bucket; without a
\* sort it is ordered by time_bucket ascending; every compiled query, whatever the
\* intent, has LIMIT plan.limit, or LIMIT 200 when the plan has no limit
C20_TrendShapeAndLimit ==
  (pc = "unit_compiled" /\ sql.ok) =>
    /\ plan.intent = "trend" =>
         /\ sql.sql.select[1].kind = "bucket"
         /\ sql.sql.select[1].alias = "time_bucket"
         /\ \A i \in 2..Len(sql.sql.select) : sql.sql.select[i].alias # "time_bucket"
         /\ sql.sql.group_by # << >>
         /\ sql.sql.group_by[1] = [table |-> "", field |-> "time_bucket"]
         /\ plan.sort = << >> =>
              sql.sql.order_by = << [col |-> [table |-> "", field |-> "time_bucket"],
                                     desc |-> FALSE] >>
    /\ plan.limit # 0 => sql.sql.limit = plan.limit
    /\ plan.limit = 0 => sql.sql.limit = 200

\* C20, the case: a trend plan without sort and without limit was compiled
C20_TrendWithoutSortAndLimit ==
  /\ pc = "unit_compiled"
  /\ sql.ok
  /\ plan.intent = "trend"
  /\ plan.sort = << >>
  /\ plan.limit = 0
  /\ sql.sql.limit = 200

\* the bucket expression the time-bucket table gives for a grain
BucketTable(grain) ==
  CASE grain = "15m" -> "FROM_UNIXTIME(FLOOR(UNIX_TIMESTAMP({col_ref})/900)*900)"
    [] grain = "hour" -> "DATE_FORMAT({col_ref}, '%Y-%m-%d %H:00:00')"
    [] grain = "day" -> "DATE_FORMAT({col_ref}, '%Y-%m-%d')"
    [] grain = "week" -> "YEARWEEK({col_ref}, 1)"
    [] grain = "month" -> "DATE_FORMAT({col_ref}, '%Y-%m')"
    [] OTHER -> "none"

\* C21: the time-bucket table.  The bucket expression of a compiled trend plan is
\* the table's expression for the plan's grain, over the time column the range
\* filter uses; the same plan with a grain outside the table makes compile fail
C21_TimeBucketTable ==
  (pc = "unit_compiled" /\ plan.intent = "trend") =>
    /\ sql.ok =>
         /\ plan.time_grain \in {"15m", "hour", "day", "week", "month"}
         /\ sql.sql.select[1].text = BucketTable(plan.time_grain)
         /\ sql.sql.select[1].cols = << sql.sql.where[1].col >>
    /\ \A g \in {"year", "quarter", ""} : ~compile([plan EXCEPT !.time_grain = g], evidence).ok
    /\ sql.ok => \A g \in {"year", "quarter", ""} :
         compile([plan EXCEPT !.time_grain = g], evidence).error = "Unsupported time_grain"

\* C21, the case: a trend plan with grain 15m was compiled
C21_QuarterHourBucket ==
  /\ pc = "unit_compiled"
  /\ sql.ok
  /\ plan.intent = "trend"
  /\ plan.time_grain = "15m"
  /\ sql.sql.select[1].kind = "bucket"

\* documents k and l of a query result have scores s(k) >= s(l), the score being
\* |A & B| / sqrt(|A| |B|); compared by the squares, |A| being the same
ExactScoreAtLeast(q, dk, dl) ==
  Cardinality(q \cap dk.tokens) * Cardinality(q \cap dk.tokens) * Cardinality(dl.tokens)
    >= Cardinality(q \cap dl.tokens) * Cardinality(q \cap dl.tokens) * Cardinality(dk.tokens)

\* C22: SimpleInMemoryVectorStore.query returns at most top_k documents, each
\* sharing a token with the query and matching the filter on every key, in
\* non-increasing order of score and, among equal scores, in insertion order; a
\* query without tokens returns nothing
C22_QueryContract ==
  hits.asked =>
    LET d(k) == hits.docs[hits.index[k]]
    IN  /\ Len(hits.index) <= hits.top_k
        /\ hits.text = {} => hits.index = << >>
        /\ \A k \in 1..Len(hits.index) :
             /\ hits.text \cap d(k).tokens # {}
             /\ \A key \in DOMAIN hits.filter :
                  key \in DOMAIN d(k).metadata /\ d(k).metadata[key] = hits.filter[key]
        /\ \A k, l \in 1..Len(hits.index) :
             k < l =>
               /\ ExactScoreAtLeast(hits.text, d(k), d(l))
               /\ ExactScoreAtLeast(hits.text, d(l), d(k)) => hits.index[k] < hits.index[l]

\* C22, the failing case: a nine-word document stored first and a one-word document
\* stored second have the same score for a three-word query, and the one-word
\* document is returned first
C22_TieOutOfInsertionOrder ==
  /\ hits.asked
  /\ Cardinality(hits.text) = 3
  /\ hits.index = << 2, 1 >>
  /\ Cardinality(hits.docs[1].tokens) = 9
  /\ Cardinality(hits.docs[2].tokens) = 1
  /\ ExactScoreAtLeast(hits.text, hits.docs[1], hits.docs[2])
  /\ ExactScoreAtLeast(hits.text, hits.docs[2], hits.docs[1])

\* what the code keeps of C22: everything but the order among equal scores
C22_QueryContractButTies ==
  hits.asked =>
    LET d(k) == hits.docs[hits.index[k]]
    IN  /\ Len(hits.index) <= hits.top_k
        /\ hits.text = {} => hits.index = << >>
        /\ \A k \in 1..Len(hits.index) :
             /\ hits.text \cap d(k).tokens # {}
             /\ \A key \in DOMAIN hits.filter :
                  key \in DOMAIN d(k).metadata /\ d(k).metadata[key] = hits.filter[key]
        /\ \A k, l \in 1..Len(hits.index) :
             k < l =>
               /\ ExactScoreAtLeast(hits.text, d(k), d(l))
               /\ (ExactScoreAtLeast(hits.text, d(l), d(k)) /\ hits.index[k] > hits.index[l]) =>
                    (Cardinality(d(k).tokens) = 9) # (Cardinality(d(l).tokens) = 9)


\* C23: no step of a request writes the KB catalogues or the vector store, and a
\* step of one request leaves the other request's locals alone (the other
\* request's plan, evidence and SQL are what it left when it was suspended); so
\* two interleaved requests with the same question and time range end with the
\* same plan, evidence, plan result and SQL.
C23_RequestsIndependent ==
  [][/\ kb' = kb
     /\ store' = store
     /\ settings' = settings
     /\ other' # other =>
          /\ other'.request = request /\ request' = other.request
          /\ other'.pc = pc /\ pc' = other.pc
          /\ other'.evidence = evidence /\ evidence' = other.evidence
          /\ other'.plan = plan /\ plan' = other.plan
          /\ other'.plan_initial = plan_initial /\ plan_initial' = other.plan_initial
          /\ other'.validation_errors = validation_errors
          /\ validation_errors' = other.validation_errors
          /\ other'.plan_result = plan_result /\ plan_result' = other.plan_result
          /\ other'.sql = sql /\ sql' = other.sql
     /\ (pc' \in {"done", "failed"} /\ other'.pc \in {"done", "failed"} /\ request' = other'.request) =>
          /\ plan' = other'.plan
          /\ plan_initial' = other'.plan_initial
          /\ evidence' = other'.evidence
          /\ validation_errors' = other'.validation_errors
          /\ plan_result' = other'.plan_result
          /\ sql' = other'.sql]_vars

\* both interleaved requests for the same question have been answered
C23_BothAnswered ==
  /\ other # NoOther
  /\ pc = "done"
  /\ other.pc = "done"
  /\ request = other.request
  /\ plan_result.returned
  /\ other.plan_result.returned
  /\ sql.ok
  /\ other.sql.ok
  /\ trace.retrievals # << >>
  /\ other.trace.retrievals # << >>


\* a validation pass is about to run on a plan whose metric_id is not among the
\* bundle's metric candidates
MetricNotFoundPending ==
  /\ pc \in {"validate", "revalidate"}
  /\ \E i \in 1..Len(validate(plan, evidence)) :
        validate(plan, evidence)[i].code = "metric_not_found"

\* i is the first metric of the catalogue with the greatest auto-fix score
HighestScoring(i) ==
  /\ i \in 1..Len(kb.metric)
  /\ \A j \in 1..Len(kb.metric) :
        AutoFixScore(request.question, kb.metric[j]) <= AutoFixScore(request.question, kb.metric[i])
  /\ \A j \in 1..(i - 1) :
        AutoFixScore(request.question, kb.metric[j]) < AutoFixScore(request.question, kb.metric[i])

\* C24: when a validation pass reports metric_not_found, the pass ends with the
\* bundle's metric_candidates replaced by the full MetricKB, the plan's metric_id
\* overwritten with the id of the highest-scoring metric for the question (the
\* first one in catalogue order on a tie) and the errors of a revalidation of that
\* plan against that bundle, which do not include metric_not_found when the
\* MetricKB is non-empty.
C24_MetricAutoFix ==
  [][MetricNotFoundPending =>
       /\ evidence' = [evidence EXCEPT !.metric_candidates = kb.metric]
       /\ kb.metric # << >> =>
            /\ \E i \in 1..Len(kb.metric) :
                  /\ HighestScoring(i)
                  /\ plan' = [plan EXCEPT !.metric_id = kb.metric[i].metric_id]
            /\ \A k \in 1..Len(validation_errors') :
                  validation_errors'[k].code # "metric_not_found"
       /\ validation_errors' = validate(plan', evidence')
       /\ trace'.validate_calls = trace.validate_calls + 2]_vars

\* a pass has patched the metric_id on a tie between two catalogue metrics
C24_PatchedOnTie ==
  /\ trace.validate_calls = 2
  /\ Len(trace.passes) = 1
  /\ PlanningCalls # << >>
  /\ Len(kb.metric) > 1
  /\ AutoFixScore(request.question, kb.metric[1]) = AutoFixScore(request.question, kb.metric[2])
  /\ plan.metric_id = kb.metric[1].metric_id
  /\ OriginalPlan.metric_id # plan.metric_id
  /\ evidence.metric_candidates = kb.metric


\* the required-function mapping by grain
GrainFuncs(grain) ==
  CASE grain = "15m" -> {"from_unixtime", "unix_timestamp"}
    [] grain \in {"hour", "day", "month"} -> {"date_format"}
    [] grain = "week" -> {"yearweek"}
    [] OTHER -> {}

FunctionNotAllowedReported ==
  \E i \in 1..Len(validation_errors) : validation_errors[i].code = "function_not_allowed"

\* some template rule of the bundle for the plan's intent does not allow all the
\* functions of the plan's grain
GrainFuncsNotAllowed ==
  \E r \in Range(evidence.template_rules) :
     /\ r.intent = plan.intent
     /\ ~(GrainFuncs(plan.time_grain) \subseteq Range(r.allowed_funcs))

\* C25: for every schema-valid plan the validator reports function_not_allowed
\* exactly when the functions required for the plan's time grain are not all in
\* the allowed_funcs of the evidence template rule for the plan's intent, whatever
\* that intent is.
C25_FunctionCheckAnyIntent ==
  (pc = "unit_validated" /\ PlanSchemaViolations(plan) = << >>) =>
     (FunctionNotAllowedReported <=> GrainFuncsNotAllowed)

RetrievedSchema(q, top_k) ==
  SchemaKB_query(kb.schema, _build_query(q, _parse_slots(q, kb).schema_terms), top_k)

\* the schema rows of the retrieval a step from pc = "start" or "repair" makes
RetrievedNow ==
  IF pc = "start" THEN RetrievedSchema(request.question, rag_top_k)
  ELSE RetrievedSchema(RefineQuery(request.question, _collect_suggestions(validation_errors)),
                       rag_top_k_second)

CatalogueTimeRows == SelectSeq(kb.schema, LAMBDA x : IsTimeTyped(x))

\* a retrieval step leaves the retrieved rows followed by the catalogue's time
\* rows when none was retrieved, and the retrieved rows otherwise
RetrievalEnsuresTimeRows ==
  pc \in {"start", "repair"} =>
    /\ (\A i \in 1..Len(RetrievedNow) : ~IsTimeTyped(RetrievedNow[i])) =>
          evidence'.schema_candidates = RetrievedNow \o CatalogueTimeRows
    /\ (\E i \in 1..Len(RetrievedNow) : IsTimeTyped(RetrievedNow[i])) =>
          evidence'.schema_candidates = RetrievedNow
    /\ CatalogueTimeRows # << >> =>
          (\E i \in 1..Len(evidence'.schema_candidates) :
              IsTimeTyped(evidence'.schema_candidates[i]))

\* C26: after every retrieval, if the returned schema rows hold no time-typed row
\* then every time-typed row of the full schema catalogue is appended after the
\* retrieved rows, whose order is kept; if a time-typed row is present the list
\* is the retrieved one; so the bundle has a time-typed schema row whenever the
\* catalogue has one.
C26_TimeRowsEnsured == [][RetrievalEnsuresTimeRows]_vars

\* the first retrieval returned rows, none of them time-typed, and the bundle
\* ends with the catalogue's time rows
C26_TimeRowAppended ==
  /\ pc = "acquire"
  /\ RetrievedSchema(request.question, rag_top_k) # << >>
  /\ \A i \in 1..Len(RetrievedSchema(request.question, rag_top_k)) :
        ~IsTimeTyped(RetrievedSchema(request.question, rag_top_k)[i])
  /\ evidence.schema_candidates = RetrievedSchema(request.question, rag_top_k) \o CatalogueTimeRows
  /\ CatalogueTimeRows # << >>


\* the tables a compiled query reads: its FROM table and the right table of each JOIN
QueryTables(q) == {q.from} \cup { q.joins[i].table : i \in 1..Len(q.joins) }

\* the columns of the SELECT list and of the WHERE conditions
QualifiedColumns(q) ==
  UNION { Range(q.select[i].cols) : i \in 1..Len(q.select) }
  \cup { q.where[i].col : i \in 1..Len(q.where) }

\* C27: for every plan the validator accepts against a bundle and the compiler
\* then compiles against the same bundle, every table that qualifies a column of
\* the SQL (time column, dimensions, filters, metric fields) is the FROM table or
\* the right table of an emitted JOIN, and the time table the compiler chose is
\* among the tables the validator counted as referenced.
C27_ColumnsOfJoinedTables ==
  (pc = "unit_compiled" /\ validation_errors = << >> /\ sql.ok) =>
     /\ \A c \in QualifiedColumns(sql.sql) : c.table \in QueryTables(sql.sql)
     /\ sql.sql.where[1].col.table \in ReferencedTables(plan, evidence)

\* C27, the failing case: an accepted plan without a join path whose metric reads
\* one table while the BETWEEN of the SQL is on the time column of another table,
\* which is neither the FROM table nor joined
C27_TimeColumnOfUnjoinedTable ==
  /\ pc = "unit_compiled"
  /\ validation_errors = << >>
  /\ sql.ok
  /\ plan.join_path_id = "NONE"
  /\ sql.sql.joins = << >>
  /\ sql.sql.where[1].col.table # sql.sql.from
  /\ sql.sql.where[1].col.table \notin ReferencedTables(plan, evidence)
  /\ ReferencedTables(plan, evidence) = {sql.sql.from}


\* C28: validator and compiler agree on the existence of a time field.  Whenever
\* validate accepts a plan against a bundle, compile on the same plan and bundle
\* does not fail with the missing-time-field error.
C28_TimeFieldAgreement ==
  (pc = "unit_compiled" /\ validation_errors = << >>) =>
     ~(~sql.ok /\ sql.error = "No time field found for time_range")

\* C28, the failing case: the bundle has no time-typed schema row, one of its
\* metrics (not the plan's) requires a field named timestamp, the validator accepts
\* the plan and compile raises the missing-time-field error
C28_AcceptedWithoutTimeField ==
  /\ pc = "unit_compiled"
  /\ validation_errors = << >>
  /\ \A i \in 1..Len(evidence.schema_candidates) : ~IsTimeTyped(evidence.schema_candidates[i])
  /\ \E m \in Range(evidence.metric_candidates) :
        /\ m.metric_id # plan.metric_id
        /\ \E f \in Range(m.required_fields) : f.field \in TIME_FIELD_NAMES
  /\ ~sql.ok
  /\ sql.error = "No time field found for time_range"


\* the question with the first 8 suggestions of the pass-1 errors
RefinedQuestion ==
  LET all == Flatten([i \in 1..Len(validation_errors) |-> validation_errors[i].suggestions])
      first8 == [i \in 1..Min2(8, Len(all)) |-> all[i]]
  IN  request.question \cup UNION { Range(first8[i]) : i \in 1..Len(first8) }

\* the result of the second retrieval
SecondRetrieval ==
  _retrieve(RefinedQuestion, _parse_slots(RefinedQuestion, kb), rag_top_k_second, kb)

\* the steps of the repair round up to the revalidation
RepairRoundBundle ==
  /\ pc = "repair" => evidence' = SecondRetrieval
  /\ pc = "repair_call" =>
        /\ evidence' = evidence
        /\ trace'.llm_calls[Len(trace'.llm_calls)].marker = "repair"
        /\ trace'.llm_calls[Len(trace'.llm_calls)].evidence = evidence
  /\ pc = "revalidate" => trace'.validated[1].evidence \in
        { evidence, [evidence EXCEPT !.metric_candidates = kb.metric] }

\* C29: in the repair round the bundle passed to the Repair Driver and used for
\* the following revalidation is exactly the result of the second retrieval on
\* the refined query (question plus at most 8 suggestions) at rag_top_k_second;
\* the result of _augment_evidence_for_errors and the pass-1 bundle have no
\* effect on it.
C29_RepairBundleIsSecondRetrieval == [][RepairRoundBundle]_vars

\* the repair driver was called with a bundle that differs from the pass-1 bundle,
\* whose metric candidates the auto-fix had replaced, and from its augmentation
C29_Pass1BundleDiscarded ==
  /\ pc = "revalidate"
  /\ Len(trace.passes) = 1
  /\ trace.validate_calls = 2
  /\ trace.validated[1].evidence.metric_candidates = kb.metric
  /\ RepairCalls # << >>
  /\ RepairCalls[1].evidence = evidence
  /\ evidence # trace.validated[1].evidence
  /\ evidence # _augment_evidence_for_errors(trace.validated[1].evidence,
                                              trace.validated[1].errors, kb)


TemplateCodes == {"function_not_allowed", "agg_not_allowed", "required_clause_missing"}

\* C30: template policy is applied only through evidence rules whose intent is
\* the plan's intent.  When the bundle holds no template rule for the plan's
\* intent, the validator reports none of function_not_allowed, agg_not_allowed
\* and required_clause_missing.
C30_NoRuleNoTemplateError ==
  (/\ pc = "unit_validated"
   /\ PlanSchemaViolations(plan) = << >>
   /\ \A r \in Range(evidence.template_rules) : r.intent # plan.intent) =>
     \A i \in 1..Len(validation_errors) : validation_errors[i].code \notin TemplateCodes

\* a trend plan of grain week accepted against a bundle whose only rule is an
\* aggregate rule that allows no function
C30_AcceptedUnconstrained ==
  /\ pc = "unit_validated"
  /\ PlanSchemaViolations(plan) = << >>
  /\ plan.intent = "trend"
  /\ plan.time_grain = "week"
  /\ evidence.template_rules # << >>
  /\ \A r \in Range(evidence.template_rules) : r.intent = "aggregate" /\ r.allowed_funcs = << >>
  /\ validation_errors = << >>

====
